---- MODULE Spec2Model ----
(***************************************************************************)
(* Browser-session lifecycle and capture pipeline of the Telegram          *)
(* save-post bot (src/bot/main.py) and the driver resolver                 *)
(* (src/bot/driver_manager.py).                                            *)
(*                                                                         *)
(* Requests are asyncio coroutines on one event loop: a step of the model  *)
(* is the code a coroutine runs between two suspension points (an await    *)
(* on a lock, on a worker thread or on the messaging API).  Work handed    *)
(* to a worker thread (quit, profile cleanup, resolve_driver, session      *)
(* construction, _selenium_capture) is in progress while the request's pc  *)
(* names it, and its outcome is chosen when the await returns.             *)
(***************************************************************************)
EXTENDS Naturals, Integers, Sequences, FiniteSets, TLC

\* ---------------------------------------------------------------- bounds
NumReqs == 3
\* environment failures (an exception out of the browser, the resolver, the
\* image pool or the messaging API) in one run
MaxFaults == 2

\* _CAPTURE_QUEUE_LIMIT: the configured number of admission slots (the
\* CAPTURE_QUEUE_LIMIT environment variable, at least 1)
CAPTURE_QUEUE_LIMIT == 2

\* the configured CHROMEDRIVER_LOG_MAX_BYTES and CHROMEDRIVER_LOG_KEEP_LINES,
\* and the longest driver log looked at, in bytes
CHROMEDRIVER_LOG_MAX_BYTES == 3
CHROMEDRIVER_LOG_KEEP_LINES == 2
MaxLogBytes == 5

\* the users that send links, the largest configured USER_RATE_LIMIT_SECONDS,
\* the last reading of the monotonic clock and the number of links looked at
NumUsers == 2
MaxRateLimit == 2
MaxClock == 4
MaxRateCalls == 3

Reqs == 1..NumReqs
NoReq == 0
NoSession == 0
NoDir == 0

VARIABLES
  \* per request (locals of handle_post_link / capture_telegram_post / _ensure_driver)
  pc,               \* position of the coroutine
  force,            \* force_refresh argument of the _ensure_driver call in progress
  holdsSlot,        \* queue_slot_acquired
  capSess,          \* the _driver value handed to the capture attempt in progress
  stale,            \* stale_driver
  captures,         \* number of _selenium_capture calls the request has started
  refreshes,        \* number of _ensure_driver(force_refresh=True) bodies entered
  fault,            \* class of the last capture exception of the request
  outcome,          \* how handle_post_link ended
  \* module globals of src/bot/main.py
  slots,            \* free permits of _capture_queue_slots
  bootLock,         \* holder of _driver_boot_lock
  driverLock,       \* holder of _driver_lock
  driver,           \* _driver
  driverResolution, \* _driver_resolution
  driverErrorHint,  \* _driver_error_hint is set
  processPool,      \* _process_pool is set
  isFirstImage,     \* _is_first_image_after_start
  tempProfileDirs,  \* _temp_profile_dirs
  \* environment
  sessions,         \* every browser session constructed so far: [st, dir]
  dirsOnDisk,       \* temporary profile directories that exist on disk
  nextDir,          \* number of mkdtemp calls so far
  isLinux,          \* platform.system().lower() == "linux"
  faults,           \* environment failures so far
  \* one call of DriverManager.resolve_driver (src/bot/driver_manager.py)
  dmPc,             \* position inside resolve_driver
  dmForce,          \* force_refresh
  envOverride,      \* settings.chromedriver_path_override: unset, missing, exists
  envSystem,        \* platform.system().lower()
  envMachine,       \* platform.machine().lower(), as a sequence of characters
  dmBrowser,        \* browser_binary and browser_major
  dmTarget,         \* target
  fsDest,           \* the file at destination
  fsTmp,            \* the file at destination + ".tmp"
  fsMeta,           \* the file chromedriver_dir / "metadata.json"
  dmUrl,            \* download_url
  dmSha,            \* archive_sha256
  dmAttempts,       \* iterations of the loop of _download_with_retries so far
  dmArchive,        \* the downloaded chromedriver.zip
  dmMetaNew,        \* the JSON text _write_metadata is writing
  dmNet,            \* the network requests issued so far
  dmFailed,         \* the step of the install attempt that failed
  dmResult,         \* what resolve_driver returned or raised
  dmExc,            \* class of the exception that ended the install attempt
  dmSelected,       \* selected, the download descriptor of the platform
  dmDownloads,      \* downloads, the descriptors the feed lists for the major
  fsDest0,          \* the file at destination when resolve_driver was called
  fsMeta0,          \* the metadata file when resolve_driver was called
  \* the text functions of src/bot/main.py, strings as sequences of characters
  txText,           \* message.text
  txUrl,            \* the result of validate_tg_link(message.text)
  txCandidates,     \* the result of _build_candidate_urls
  txFilename,       \* the filename capture_telegram_post returns
  \* one pixel through _remove_green_pixels_sync
  pxIn,             \* the RGBA pixel of the screenshot
  pxNumpy,          \* use_numpy
  pxOut,            \* the pixel of the returned image
  \* DriverManager._extract_major applied to one version output
  vxOutput,         \* version_output, as a sequence of characters
  vxResults,        \* what each call so far returned or raised
  \* the candidate loop of _selenium_capture (src/bot/main.py)
  cpPages,          \* what the browser meets at each candidate URL, in list order
  cpPc,             \* position inside the loop
  cpUrl,            \* index of attempt_url in candidates
  cpFrame,          \* index of frame in frames
  cpPostElement,    \* post_element: where it was found
  cpActiveFrame,    \* active_frame
  cpLastExc,        \* last_exc: the probe whose timeout it is
  cpLog,            \* navigations and probes performed so far
  cpResult,         \* how the loop ended
  \* the viewport-crop fallback of _selenium_capture
  crRect,           \* rect, in CSS pixels
  crScale,          \* scale, in halves (2 stands for 1.0, 3 for 1.5)
  crImage,          \* full_img.width and full_img.height
  crResult,         \* the crop box used, or the exception raised
  \* one call of _trim_chromedriver_log_if_needed
  lgFile,           \* chromedriver.log: whether it exists, and its bytes
  lgFile0,          \* the file when the function was called
  lgFault,          \* the step of the call that raised, if any
  lgPc,             \* position of the call: "call", "returned" or "raised"
  \* the rate limiter of handle_post_link
  rlLimit,          \* _USER_RATE_LIMIT_SECONDS
  rlClock,          \* time.monotonic()
  rlLastTs,         \* _last_user_request_ts
  rlCalls           \* the links handled so far: user, now, retry_after, and
                    \* whether the handler went on to _acquire_capture_slot

reqVars == <<pc, force, holdsSlot, capSess, stale, captures, refreshes, fault, outcome>>
globVars == <<slots, bootLock, driverLock, driver, driverResolution, driverErrorHint,
              processPool, isFirstImage, tempProfileDirs>>
envVars == <<sessions, dirsOnDisk, nextDir, isLinux>>
smVars == <<reqVars, globVars, envVars, faults>>
dmVars == <<dmPc, dmForce, envOverride, envSystem, envMachine, dmBrowser, dmTarget,
            fsDest, fsTmp, fsMeta, dmUrl, dmSha, dmAttempts, dmArchive, dmMetaNew,
            dmNet, dmFailed, dmResult, dmExc, dmSelected, dmDownloads, fsDest0,
            fsMeta0>>
txVars == <<txText, txUrl, txCandidates, txFilename>>
pxVars == <<pxIn, pxNumpy, pxOut>>
vxVars == <<vxOutput, vxResults>>
cpVars == <<cpPages, cpPc, cpUrl, cpFrame, cpPostElement, cpActiveFrame, cpLastExc,
            cpLog, cpResult>>
crVars == <<crRect, crScale, crImage, crResult>>
lgVars == <<lgFile, lgFile0, lgFault, lgPc>>
rlVars == <<rlLimit, rlClock, rlLastTs, rlCalls>>
auxVars == <<cpVars, crVars, lgVars, rlVars>>
fnVars == <<txVars, pxVars, vxVars, auxVars>>
vars == <<smVars, dmVars, fnVars>>

PcValues == {"idle", "slot_wait", "boot_wait", "refresh_quit",
             "refresh_cleanup", "resolving", "creating", "lock_wait", "capture1",
             "capture2", "fault_quit", "fault_cleanup", "report_locked",
             "processing", "report_fail", "done"}

SessStates == {"live", "quitting", "quit", "quit_failed"}

\* what resolve_driver can hand back to _ensure_driver
ResolveOutcomes == {"local", "fallback", "browser_not_found", "error"}

TypeOK ==
  /\ pc \in [Reqs -> PcValues]
  /\ force \in [Reqs -> BOOLEAN]
  /\ holdsSlot \in [Reqs -> BOOLEAN]
  /\ capSess \in [Reqs -> Nat]
  /\ stale \in [Reqs -> Nat]
  /\ captures \in [Reqs -> Nat]
  /\ refreshes \in [Reqs -> Nat]
  /\ fault \in [Reqs -> {"none", "snc", "fault", "retry_fault"}]
  /\ outcome \in [Reqs -> {"none", "sent", "failed", "rejected", "raised"}]
  /\ slots \in 0..CAPTURE_QUEUE_LIMIT
  /\ bootLock \in Reqs \cup {NoReq}
  /\ driverLock \in Reqs \cup {NoReq}
  /\ driver \in 0..Len(sessions)
  /\ driverResolution \in {"none", "local", "fallback"}
  /\ driverErrorHint \in BOOLEAN
  /\ processPool \in BOOLEAN
  /\ isFirstImage \in BOOLEAN
  /\ \A i \in 1..Len(tempProfileDirs) : tempProfileDirs[i] \in 1..nextDir
  /\ \A i \in 1..Len(sessions) : sessions[i].st \in SessStates /\ sessions[i].dir \in 0..nextDir
  /\ dirsOnDisk \subseteq 1..nextDir
  /\ nextDir \in Nat
  /\ isLinux \in BOOLEAN
  /\ faults \in 0..MaxFaults

InitSession ==
  /\ pc = [r \in Reqs |-> "idle"]
  /\ force = [r \in Reqs |-> FALSE]
  /\ holdsSlot = [r \in Reqs |-> FALSE]
  /\ capSess = [r \in Reqs |-> NoSession]
  /\ stale = [r \in Reqs |-> NoSession]
  /\ captures = [r \in Reqs |-> 0]
  /\ refreshes = [r \in Reqs |-> 0]
  /\ fault = [r \in Reqs |-> "none"]
  /\ outcome = [r \in Reqs |-> "none"]
  /\ slots = CAPTURE_QUEUE_LIMIT
  /\ bootLock = NoReq
  /\ driverLock = NoReq
  /\ driver = NoSession
  /\ driverResolution = "none"
  /\ driverErrorHint = FALSE
  /\ processPool = FALSE
  /\ isFirstImage = TRUE
  /\ tempProfileDirs = <<>>
  /\ sessions = <<>>
  /\ dirsOnDisk = {}
  /\ nextDir = 0
  /\ isLinux \in BOOLEAN
  /\ faults = 0

NoTarget == [os_name |-> "none", arch |-> "none", cft_platform |-> "none",
             executable_name |-> "none"]
NoFile == [kind |-> "absent", major |-> 0]
NoMeta == [kind |-> "absent", drivers |-> {}]
NoUrl == [isStr |-> FALSE, segs |-> <<>>]
NoSha == "none"
NoItem == [platform |-> "none", url |-> NoUrl, sha256 |-> "none", sha_256 |-> "none",
           checksum |-> "none"]
NoArchive == [digest |-> "none", zipOk |-> FALSE, hasBinary |-> FALSE, major |-> 0]
NoResult == [kind |-> "none"]
NoDownloads == <<NoItem>>

\* the locals of resolve_driver before the call
DmLocalsInit ==
  /\ dmBrowser = [binary |-> "none", major |-> 0]
  /\ dmTarget = NoTarget
  /\ dmUrl = NoUrl
  /\ dmSha = NoSha
  /\ dmAttempts = 0
  /\ dmArchive = NoArchive
  /\ dmMetaNew = NoMeta
  /\ dmNet = <<>>
  /\ dmFailed = "none"
  /\ dmResult = NoResult
  /\ dmExc = "none"
  /\ dmSelected = NoItem
  /\ dmDownloads = NoDownloads

\* no call of resolve_driver is followed step by step
DmIdle ==
  /\ dmPc = "idle"
  /\ dmForce = FALSE
  /\ envOverride = "unset"
  /\ envSystem = IF isLinux THEN "linux" ELSE "darwin"
  /\ envMachine = <<"x", "8", "6", "_", "6", "4">>
  /\ fsDest = NoFile
  /\ fsTmp = NoFile
  /\ fsMeta = NoMeta
  /\ fsDest0 = NoFile
  /\ fsMeta0 = NoMeta
  /\ DmLocalsInit

Unset == [kind |-> "unset", value |-> <<>>]
NoPixel == [r |-> 0, g |-> 0, b |-> 0, a |-> 0]
NoPixelOut == [kind |-> "unset", px |-> NoPixel]

\* no text function is being applied
TxIdle ==
  /\ txText = <<>>
  /\ txUrl = Unset
  /\ txCandidates = Unset
  /\ txFilename = Unset

\* no image is being processed
PxIdle ==
  /\ pxIn = NoPixel
  /\ pxNumpy = TRUE
  /\ pxOut = NoPixelOut

\* no version output is being parsed
VxIdle ==
  /\ vxOutput = <<>>
  /\ vxResults = <<>>

\* a navigation or a probe: candidate url, context 0 for the top-level
\* document and k for the k-th matching iframe
Probe(url, context) == [url |-> url, context |-> context]
NoProbe == Probe(0, 0)
NoCaptureResult == [kind |-> "none", exc |-> "none", at |-> NoProbe]

\* the locals of _selenium_capture before the loop
CpLocalsInit ==
  /\ cpUrl = 0
  /\ cpFrame = 0
  /\ cpPostElement = NoProbe
  /\ cpActiveFrame = 0
  /\ cpLastExc = NoProbe
  /\ cpLog = <<>>
  /\ cpResult = NoCaptureResult

\* no capture is followed step by step
CpIdle ==
  /\ cpPages = <<>>
  /\ cpPc = "idle"
  /\ CpLocalsInit

NoRect == [measured |-> FALSE, left |-> 0, top |-> 0, width |-> 0, height |-> 0]
NoCropResult == [kind |-> "none", left |-> 0, top |-> 0, right |-> 0, bottom |-> 0]

\* no element screenshot has failed
CrIdle ==
  /\ crRect = NoRect
  /\ crScale = 2
  /\ crImage = [width |-> 1, height |-> 1]
  /\ crResult = NoCropResult

NoLog == [exists |-> FALSE, bytes |-> <<>>]

\* no call of _trim_chromedriver_log_if_needed is looked at
LgIdle ==
  /\ lgFile = NoLog
  /\ lgFile0 = NoLog
  /\ lgFault = "none"
  /\ lgPc = "idle"

Users == 1..NumUsers

\* _last_user_request_ts.get(user_id) of a user without an entry
NoTs == -1

\* no link is looked at by the rate limiter
RlIdle ==
  /\ rlLimit = 0
  /\ rlClock = 0
  /\ rlLastTs = [u \in Users |-> NoTs]
  /\ rlCalls = <<>>

AuxIdle == CpIdle /\ CrIdle /\ LgIdle /\ RlIdle

Init == InitSession /\ DmIdle /\ TxIdle /\ PxIdle /\ VxIdle /\ AuxIdle

\* ------------------------------------------------------------- helpers

\* the environment fails once more / the operation succeeds
Fails == faults < MaxFaults /\ faults' = faults + 1

Succeeds == faults' = faults

\* a semaphore that hands out permits it does not have
SlotAvailableUnbounded == TRUE

\* asyncio.BoundedSemaphore.acquire can take a permit
SlotAvailable == slots > 0

\* session construction that does not wait for the boot lock
BootLockIgnored == TRUE

\* async with _driver_boot_lock can enter
BootLockFree == bootLock = NoReq

\* a capture that does not wait for the capture lock
DriverLockIgnored == TRUE

\* async with _driver_lock can enter
DriverLockFree == driverLock = NoReq

SetSt(s, st) == [sessions EXCEPT ![s].st = st]

RemoveDir(seq, d) == SelectSeq(seq, LAMBDA x : x # d)

\* _cleanup_profile_from_driver(s): rmtree of the marked directory and
\* removal from _temp_profile_dirs; nothing for an unmarked session
CleanupProfile(s) ==
  IF s # NoSession /\ sessions[s].dir # NoDir
  THEN /\ dirsOnDisk' = dirsOnDisk \ {sessions[s].dir}
       /\ tempProfileDirs' = RemoveDir(tempProfileDirs, sessions[s].dir)
  ELSE UNCHANGED <<dirsOnDisk, tempProfileDirs>>

\* the slot released on the normal path only, not in a finally clause
FinishNoFinally(r, o) ==
  /\ pc' = [pc EXCEPT ![r] = "done"]
  /\ holdsSlot' = [holdsSlot EXCEPT ![r] = FALSE]
  /\ slots' = IF o = "raised" THEN slots ELSE slots + 1
  /\ outcome' = [outcome EXCEPT ![r] = o]
  /\ force' = [force EXCEPT ![r] = FALSE]
  /\ capSess' = [capSess EXCEPT ![r] = NoSession]
  /\ stale' = [stale EXCEPT ![r] = NoSession]
  /\ captures' = [captures EXCEPT ![r] = 0]
  /\ refreshes' = [refreshes EXCEPT ![r] = 0]
  /\ fault' = [fault EXCEPT ![r] = "none"]

\* handle_post_link ends with outcome o: its finally clause releases the
\* admission slot and the locals of the request go out of scope
Finish(r, o) ==
  /\ pc' = [pc EXCEPT ![r] = "done"]
  /\ holdsSlot' = [holdsSlot EXCEPT ![r] = FALSE]
  /\ slots' = slots + 1
  /\ outcome' = [outcome EXCEPT ![r] = o]
  /\ force' = [force EXCEPT ![r] = FALSE]
  /\ capSess' = [capSess EXCEPT ![r] = NoSession]
  /\ stale' = [stale EXCEPT ![r] = NoSession]
  /\ captures' = [captures EXCEPT ![r] = 0]
  /\ refreshes' = [refreshes EXCEPT ![r] = 0]
  /\ fault' = [fault EXCEPT ![r] = "none"]

\* image post-processing that clears the session slot the way the capture
\* fault handler does
ProcessingDropsSession ==
  /\ driver' = NoSession
  /\ UNCHANGED <<sessions, dirsOnDisk, tempProfileDirs>>

\* the post-processing block of capture_telegram_post touches neither
\* _driver nor a session nor a profile directory, whether it succeeds or
\* its except clause runs
ProcessingKeepsSession == UNCHANGED <<driver, sessions, dirsOnDisk, tempProfileDirs>>

\* the rest of the request's locals stay as they are
KeepLocals == UNCHANGED <<force, capSess, stale, captures, refreshes, fault>>

\* _consume_first_image_flag, right after the slot is granted
ConsumeFirstImageFlag == isFirstImage' = FALSE

\* _ensure_driver returns normally with _driver = d: the boot lock is
\* released; the caller goes on to the capture lock (first call) or
\* straight to the retry capture (forced call, capture lock already held)
EnsureReturn(r, d) ==
  /\ bootLock' = NoReq
  /\ IF force[r]
     THEN /\ pc' = [pc EXCEPT ![r] = "capture2"]
          /\ captures' = [captures EXCEPT ![r] = @ + 1]
          /\ capSess' = [capSess EXCEPT ![r] = d]
     ELSE /\ pc' = [pc EXCEPT ![r] = "lock_wait"]
          /\ UNCHANGED <<captures, capSess>>

\* the boot lock taken with acquire() and released on the normal path only
EnsureRaiseKeepsLock(r) ==
  /\ UNCHANGED bootLock
  /\ pc' = [pc EXCEPT ![r] = IF force[r] THEN "report_locked" ELSE "report_fail"]

\* a capture_telegram_post whose handlers around _ensure_driver(False) pass
\* instead of returning None
EnsureRaiseSwallowed(r) ==
  /\ bootLock' = NoReq
  /\ pc' = [pc EXCEPT ![r] = IF force[r] THEN "report_locked" ELSE "lock_wait"]

\* an exception leaves _ensure_driver: the boot lock is released; the first
\* call's handlers report and return None, the forced call's exception is
\* caught by the retry handler inside the capture lock
EnsureRaise(r) ==
  /\ bootLock' = NoReq
  /\ pc' = [pc EXCEPT ![r] = IF force[r] THEN "report_locked" ELSE "report_fail"]

\* an _ensure_driver without the early return
SessionNeverExists == FALSE

\* "if _driver is not None: return" of _ensure_driver
SessionExists == driver # NoSession

\* await _ensure_driver(force_refresh=True) from the SessionNotCreated handler
CallEnsureForced(r) ==
  /\ pc' = [pc EXCEPT ![r] = "boot_wait"]
  /\ force' = [force EXCEPT ![r] = TRUE]
  /\ refreshes' = [refreshes EXCEPT ![r] = @ + 1]

\* the retry handler asking for another refresh instead of giving up
RetryFailedRefreshAgain(r) ==
  /\ fault' = [fault EXCEPT ![r] = "snc"]
  /\ CallEnsureForced(r)

\* except Exception around the forced refresh and the retry capture: the
\* request reports "capture.driver_update_failed" and returns None
RetryFailed(r) ==
  /\ fault' = [fault EXCEPT ![r] = "retry_fault"]
  /\ pc' = [pc EXCEPT ![r] = "report_locked"]
  /\ UNCHANGED <<force, refreshes>>

\* ------------------------------------------------------------- actions

\* preflight_driver_startup, before polling starts
Preflight ==
  /\ \A r \in Reqs : pc[r] = "idle"
  /\ driverResolution = "none" /\ ~driverErrorHint
  /\ \E o \in ResolveOutcomes :
       IF o \in {"local", "fallback"}
       THEN driverResolution' = o /\ Succeeds /\ UNCHANGED driverErrorHint
       ELSE driverErrorHint' = TRUE /\ Fails /\ UNCHANGED driverResolution
  /\ UNCHANGED <<reqVars, envVars, slots, bootLock, driverLock, driver, processPool,
                 isFirstImage, tempProfileDirs>>
  /\ UNCHANGED <<dmVars, fnVars>>

\* handle_post_link up to _acquire_capture_slot: a valid link that passed
\* the rate limiter takes a free permit at once or starts waiting.
\* Requests are numbered in the order in which they arrive.
HandlePostLink(r) ==
  /\ pc[r] = "idle"
  /\ \A q \in Reqs : q < r => pc[q] # "idle"
  /\ IF SlotAvailable
     THEN /\ slots' = slots - 1
          /\ holdsSlot' = [holdsSlot EXCEPT ![r] = TRUE]
          /\ ConsumeFirstImageFlag
          /\ pc' = [pc EXCEPT ![r] = "boot_wait"]
     ELSE /\ pc' = [pc EXCEPT ![r] = "slot_wait"]
          /\ UNCHANGED <<slots, holdsSlot, isFirstImage>>
  /\ KeepLocals
  /\ UNCHANGED <<outcome, envVars, faults, bootLock, driverLock, driver,
                 driverResolution, driverErrorHint, processPool, tempProfileDirs>>
  /\ UNCHANGED <<dmVars, fnVars>>

\* a permit is released while the request waits in wait_for
SlotGranted(r) ==
  /\ pc[r] = "slot_wait"
  /\ SlotAvailable
  /\ slots' = slots - 1
  /\ holdsSlot' = [holdsSlot EXCEPT ![r] = TRUE]
  /\ ConsumeFirstImageFlag
  /\ pc' = [pc EXCEPT ![r] = "boot_wait"]
  /\ KeepLocals
  /\ UNCHANGED <<outcome, envVars, faults, bootLock, driverLock, driver,
                 driverResolution, driverErrorHint, processPool, tempProfileDirs>>
  /\ UNCHANGED <<dmVars, fnVars>>

\* asyncio.TimeoutError after CAPTURE_QUEUE_WAIT_SECONDS: queue overload
SlotTimeout(r) ==
  /\ pc[r] = "slot_wait"
  /\ ~SlotAvailable
  /\ pc' = [pc EXCEPT ![r] = "done"]
  /\ outcome' = [outcome EXCEPT ![r] = "rejected"]
  /\ KeepLocals
  /\ UNCHANGED <<holdsSlot, envVars, faults, globVars>>
  /\ UNCHANGED <<dmVars, fnVars>>

\* a progress report before _ensure_driver(False) raises: the first-image
\* warning, "progress.processing" or "capture.start"
ReportStartRaises(r) ==
  /\ pc[r] = "boot_wait"
  /\ ~force[r]
  /\ Fails
  /\ Finish(r, "raised")
  /\ UNCHANGED <<envVars, bootLock, driverLock, driver, driverResolution,
                 driverErrorHint, processPool, isFirstImage, tempProfileDirs>>
  /\ UNCHANGED <<dmVars, fnVars>>

\* _ensure_driver after the boot lock is granted, up to its first await
BootLockAcquire(r) ==
  /\ pc[r] = "boot_wait"
  /\ BootLockFree
  /\ processPool' = TRUE
  /\ IF force[r] /\ driver # NoSession
     THEN /\ stale' = [stale EXCEPT ![r] = driver]
          /\ driver' = NoSession
          /\ sessions' = SetSt(driver, "quitting")
          /\ bootLock' = r
          /\ pc' = [pc EXCEPT ![r] = "refresh_quit"]
          /\ UNCHANGED <<captures, capSess>>
     ELSE IF SessionExists
     THEN /\ EnsureReturn(r, driver)
          /\ UNCHANGED <<stale, driver, sessions>>
     ELSE /\ bootLock' = r
          /\ pc' = [pc EXCEPT ![r] = "resolving"]
          /\ UNCHANGED <<stale, driver, sessions, captures, capSess>>
  /\ UNCHANGED <<force, holdsSlot, refreshes, fault, outcome, slots, driverLock,
                 driverResolution, driverErrorHint, isFirstImage,
                 tempProfileDirs, dirsOnDisk, nextDir, isLinux, faults>>
  /\ UNCHANGED <<dmVars, fnVars>>

\* forced refresh: stale_driver.quit returned or raised
RefreshQuitDone(r) ==
  /\ pc[r] = "refresh_quit"
  /\ \/ /\ Succeeds
        /\ sessions' = SetSt(stale[r], "quit")
        /\ pc' = [pc EXCEPT ![r] = "refresh_cleanup"]
        /\ UNCHANGED bootLock
     \/ /\ Fails
        /\ sessions' = SetSt(stale[r], "quit_failed")
        /\ EnsureRaise(r)
  /\ KeepLocals
  /\ UNCHANGED <<holdsSlot, outcome, slots, driverLock, driver, driverResolution,
                 driverErrorHint, processPool, isFirstImage, tempProfileDirs,
                 dirsOnDisk, nextDir, isLinux>>
  /\ UNCHANGED <<dmVars, fnVars>>

\* forced refresh: _cleanup_profile_from_driver returned
RefreshCleanupDone(r) ==
  /\ pc[r] = "refresh_cleanup"
  /\ CleanupProfile(stale[r])
  /\ IF SessionExists
     THEN EnsureReturn(r, driver)
     ELSE /\ pc' = [pc EXCEPT ![r] = "resolving"]
          /\ UNCHANGED <<bootLock, captures, capSess>>
  /\ UNCHANGED <<force, holdsSlot, stale, refreshes, fault, outcome, slots, driverLock,
                 driver, driverResolution, driverErrorHint, processPool, isFirstImage,
                 sessions, nextDir, isLinux, faults>>
  /\ UNCHANGED <<dmVars, fnVars>>

\* resolve_driver returned or raised
ResolveDone(r) ==
  /\ pc[r] = "resolving"
  /\ \E o \in ResolveOutcomes :
       IF o \in {"local", "fallback"}
       THEN /\ Succeeds
            /\ driverResolution' = o
            /\ driverErrorHint' = FALSE
            /\ pc' = [pc EXCEPT ![r] = "creating"]
            /\ UNCHANGED bootLock
       ELSE /\ Fails
            /\ driverErrorHint' = (IF o = "browser_not_found" THEN TRUE ELSE driverErrorHint)
            /\ EnsureRaise(r)
            /\ UNCHANGED driverResolution
  /\ KeepLocals
  /\ UNCHANGED <<holdsSlot, outcome, slots, driverLock, driver, processPool,
                 isFirstImage, tempProfileDirs, envVars>>
  /\ UNCHANGED <<dmVars, fnVars>>

\* _create_driver_sync returned a session or raised after the profile
\* directory was made
CreateDone(r) ==
  /\ pc[r] = "creating"
  /\ LET d == IF isLinux THEN nextDir + 1 ELSE NoDir
         s == Len(sessions) + 1
     IN /\ nextDir' = IF isLinux THEN nextDir + 1 ELSE nextDir
        /\ dirsOnDisk' = IF isLinux THEN dirsOnDisk \cup {d} ELSE dirsOnDisk
        /\ \/ /\ Succeeds
              /\ sessions' = Append(sessions, [st |-> "live", dir |-> d])
              /\ tempProfileDirs' = IF d # NoDir THEN Append(tempProfileDirs, d)
                                                 ELSE tempProfileDirs
              /\ driver' = s
              /\ EnsureReturn(r, s)
           \/ /\ Fails
              /\ EnsureRaise(r)
              /\ UNCHANGED <<sessions, tempProfileDirs, driver, captures, capSess>>
  /\ UNCHANGED <<force, holdsSlot, stale, refreshes, fault, outcome, slots, driverLock,
                 driverResolution, driverErrorHint, processPool, isFirstImage, isLinux>>
  /\ UNCHANGED <<dmVars, fnVars>>

\* the capture lock is granted: first _selenium_capture starts with _driver
DriverLockAcquire(r) ==
  /\ pc[r] = "lock_wait"
  /\ DriverLockFree
  /\ driverLock' = r
  /\ pc' = [pc EXCEPT ![r] = "capture1"]
  /\ captures' = [captures EXCEPT ![r] = @ + 1]
  /\ capSess' = [capSess EXCEPT ![r] = driver]
  /\ UNCHANGED <<force, holdsSlot, stale, refreshes, fault, outcome, slots, bootLock,
                 driver, driverResolution, driverErrorHint, processPool, isFirstImage,
                 tempProfileDirs, envVars, faults>>
  /\ UNCHANGED <<dmVars, fnVars>>

\* edit_text("capture.loading") raises before the capture lock is taken
ReportLoadingRaises(r) ==
  /\ pc[r] = "lock_wait"
  /\ Fails
  /\ Finish(r, "raised")
  /\ UNCHANGED <<envVars, bootLock, driverLock, driver, driverResolution,
                 driverErrorHint, processPool, isFirstImage, tempProfileDirs>>
  /\ UNCHANGED <<dmVars, fnVars>>

\* the first _selenium_capture returned or raised
Capture1Done(r) ==
  /\ pc[r] = "capture1"
  /\ \/ /\ capSess[r] # NoSession
        /\ Succeeds
        /\ driverLock' = NoReq
        /\ pc' = [pc EXCEPT ![r] = "processing"]
        /\ UNCHANGED <<force, refreshes, fault, stale, driver, sessions>>
     \/ /\ capSess[r] # NoSession
        /\ Fails
        /\ fault' = [fault EXCEPT ![r] = "snc"]
        /\ CallEnsureForced(r)
        /\ UNCHANGED <<driverLock, stale, driver, sessions>>
     \/ /\ IF capSess[r] # NoSession THEN Fails ELSE Succeeds
        /\ fault' = [fault EXCEPT ![r] = "fault"]
        /\ stale' = [stale EXCEPT ![r] = driver]
        /\ driver' = NoSession
        /\ IF driver # NoSession
           THEN /\ sessions' = SetSt(driver, "quitting")
                /\ pc' = [pc EXCEPT ![r] = "fault_quit"]
           ELSE /\ pc' = [pc EXCEPT ![r] = "report_locked"]
                /\ UNCHANGED sessions
        /\ UNCHANGED <<driverLock, force, refreshes>>
  /\ UNCHANGED <<holdsSlot, capSess, captures, outcome, slots, bootLock,
                 driverResolution, driverErrorHint, processPool, isFirstImage,
                 tempProfileDirs, dirsOnDisk, nextDir, isLinux>>
  /\ UNCHANGED <<dmVars, fnVars>>

\* capture fault handler: stale_driver.quit returned or raised
FaultQuitDone(r) ==
  /\ pc[r] = "fault_quit"
  /\ \/ /\ Succeeds
        /\ sessions' = SetSt(stale[r], "quit")
        /\ pc' = [pc EXCEPT ![r] = "fault_cleanup"]
     \/ /\ Fails
        /\ sessions' = SetSt(stale[r], "quit_failed")
        /\ pc' = [pc EXCEPT ![r] = "report_locked"]
  /\ KeepLocals
  /\ UNCHANGED <<holdsSlot, outcome, globVars, dirsOnDisk, nextDir, isLinux>>
  /\ UNCHANGED <<dmVars, fnVars>>

\* capture fault handler: _cleanup_profile_from_driver returned
FaultCleanupDone(r) ==
  /\ pc[r] = "fault_cleanup"
  /\ CleanupProfile(stale[r])
  /\ pc' = [pc EXCEPT ![r] = "report_locked"]
  /\ KeepLocals
  /\ UNCHANGED <<holdsSlot, outcome, slots, bootLock, driverLock, driver,
                 driverResolution, driverErrorHint, processPool, isFirstImage,
                 sessions, nextDir, isLinux, faults>>
  /\ UNCHANGED <<dmVars, fnVars>>

\* the retry _selenium_capture returned or raised
Capture2Done(r) ==
  /\ pc[r] = "capture2"
  /\ \/ /\ capSess[r] # NoSession
        /\ Succeeds
        /\ driverLock' = NoReq
        /\ pc' = [pc EXCEPT ![r] = "processing"]
        /\ UNCHANGED fault
        /\ UNCHANGED <<force, refreshes>>
     \/ /\ IF capSess[r] # NoSession THEN Fails ELSE Succeeds
        /\ RetryFailed(r)
        /\ UNCHANGED driverLock
  /\ UNCHANGED <<holdsSlot, capSess, stale, captures, outcome,
                 slots, bootLock, driver, driverResolution, driverErrorHint,
                 processPool, isFirstImage, tempProfileDirs, envVars>>
  /\ UNCHANGED <<dmVars, fnVars>>

\* the error report inside the capture lock returned or raised: the lock
\* is released either way
ReportLockedDone(r) ==
  /\ pc[r] = "report_locked"
  /\ driverLock' = NoReq
  /\ \/ /\ Succeeds
        /\ pc' = [pc EXCEPT ![r] = "report_fail"]
        /\ KeepLocals
        /\ UNCHANGED <<holdsSlot, slots, outcome>>
     \/ Fails /\ Finish(r, "raised")
  /\ UNCHANGED <<envVars, bootLock, driver, driverResolution, driverErrorHint,
                 processPool, isFirstImage, tempProfileDirs>>
  /\ UNCHANGED <<dmVars, fnVars>>

\* after a successful capture: _remove_green_pixels_sync in the process
\* pool, the progress reports around it, sending the document; finally
ProcessingDone(r) ==
  /\ pc[r] = "processing"
  /\ \E o \in {"sent", "failed", "raised"} :
       /\ IF o = "sent" THEN Succeeds ELSE Fails
       /\ Finish(r, o)
  /\ ProcessingKeepsSession
  /\ UNCHANGED <<nextDir, isLinux, bootLock, driverLock, driverResolution,
                 driverErrorHint, processPool, isFirstImage>>
  /\ UNCHANGED <<dmVars, fnVars>>

\* after capture_telegram_post returned None: "progress.failed", event
\* log; finally
ReportDone(r) ==
  /\ pc[r] = "report_fail"
  /\ \E o \in {"failed", "raised"} :
       /\ IF o = "failed" THEN Succeeds ELSE Fails
       /\ Finish(r, o)
  /\ UNCHANGED <<envVars, bootLock, driverLock, driver, driverResolution,
                 driverErrorHint, processPool, isFirstImage, tempProfileDirs>>
  /\ UNCHANGED <<dmVars, fnVars>>

Step(r) ==
  \/ SlotGranted(r)
  \/ SlotTimeout(r)
  \/ ReportStartRaises(r)
  \/ BootLockAcquire(r)
  \/ RefreshQuitDone(r)
  \/ RefreshCleanupDone(r)
  \/ ResolveDone(r)
  \/ CreateDone(r)
  \/ DriverLockAcquire(r)
  \/ ReportLoadingRaises(r)
  \/ Capture1Done(r)
  \/ FaultQuitDone(r)
  \/ FaultCleanupDone(r)
  \/ Capture2Done(r)
  \/ ReportLockedDone(r)
  \/ ProcessingDone(r)
  \/ ReportDone(r)

Next ==
  \/ Preflight
  \/ \E r \in Reqs : HandlePostLink(r)
  \/ \E r \in Reqs : Step(r)

Spec == Init /\ [][Next]_vars

\* the event loop resumes every coroutine that can run, and every browser,
\* resolver and messaging operation returns or raises
Fairness == \A r \in Reqs : WF_vars(Step(r))

LiveSpec == Spec /\ Fairness

\* ------------------------------------- DriverManager.resolve_driver

\* browser major versions that occur
Majors == {120, 121}

\* platform.machine().lower() values that occur
Machines == {<<"a", "r", "m", "6", "4">>, <<"x", "8", "6", "_", "6", "4">>,
             <<"a", "m", "d", "6", "4">>, <<"i", "6", "8", "6">>}

Systems == {"darwin", "linux", "windows", "freebsd"}

\* sub in text, on sequences of characters
Contains(text, sub) ==
  \E i \in 1..(Len(text) + 1 - Len(sub)) : SubSeq(text, i, i + Len(sub) - 1) = sub

\* a mapping that treats every unknown system as Linux
CurrentTargetDefaultLinux(system, machine) ==
  IF system = "darwin"
  THEN [os_name |-> "mac", arch |-> "x64", cft_platform |-> "mac-x64",
        executable_name |-> "chromedriver"]
  ELSE IF system = "windows"
  THEN [os_name |-> "win", arch |-> "x64", cft_platform |-> "win64",
        executable_name |-> "chromedriver.exe"]
  ELSE [os_name |-> "linux", arch |-> "x64", cft_platform |-> "linux64",
        executable_name |-> "chromedriver"]

\* _current_target; NoTarget stands for raise DriverInstallError("Unsupported OS")
CurrentTarget(system, machine) ==
  IF system = "darwin"
  THEN IF Contains(machine, <<"a", "r", "m">>)
       THEN [os_name |-> "mac", arch |-> "arm64", cft_platform |-> "mac-arm64",
             executable_name |-> "chromedriver"]
       ELSE [os_name |-> "mac", arch |-> "x64", cft_platform |-> "mac-x64",
             executable_name |-> "chromedriver"]
  ELSE IF system = "linux"
  THEN [os_name |-> "linux", arch |-> "x64", cft_platform |-> "linux64",
        executable_name |-> "chromedriver"]
  ELSE IF system = "windows"
  THEN IF \/ Contains(machine, <<"a", "m", "d", "6", "4">>)
          \/ Contains(machine, <<"x", "8", "6", "_", "6", "4">>)
          \/ Contains(machine, <<"x", "6", "4">>)
       THEN [os_name |-> "win", arch |-> "x64", cft_platform |-> "win64",
             executable_name |-> "chromedriver.exe"]
       ELSE [os_name |-> "win", arch |-> "x86", cft_platform |-> "win32",
             executable_name |-> "chromedriver.exe"]
  ELSE NoTarget

\* a URL as its scheme, host and path segments
OfficialPrefix == <<"https:", "storage.googleapis.com", "chrome-for-testing-public">>

Url(segs) == [isStr |-> TRUE, segs |-> segs]

\* _CFT_MILESTONES_URL
FeedUrl == Url(<<"https:", "googlechromelabs.github.io", "chrome-for-testing",
                 "latest-versions-per-milestone-with-downloads.json">>)

Urls == {Url(OfficialPrefix \o <<"chromedriver.zip">>),
         Url(<<"https:", "example.org", "chrome-for-testing-public", "chromedriver.zip">>),
         Url(<<"http:", "storage.googleapis.com", "chrome-for-testing-public",
               "chromedriver.zip">>),
         NoUrl}

\* a test that accepts every string
SafeUrlAnyString(u) == u.isStr

\* isinstance(download_url, str) and download_url.startswith(<official prefix>)
SafeUrl(u) ==
  /\ u.isStr
  /\ Len(u.segs) >= Len(OfficialPrefix)
  /\ SubSeq(u.segs, 1, Len(OfficialPrefix)) = OfficialPrefix

\* checksum fields: absent, not 64 hex digits, or a digest in either case
ValidSha(v) == v \in {"d1", "d2", "D1", "D2"}

Lower(v) == IF v = "D1" THEN "d1" ELSE IF v = "D2" THEN "d2" ELSE v

\* _extract_sha256
ExtractSha256(item) ==
  IF ValidSha(item.sha256) THEN Lower(item.sha256)
  ELSE IF ValidSha(item.sha_256) THEN Lower(item.sha_256)
  ELSE IF ValidSha(item.checksum) THEN Lower(item.checksum)
  ELSE NoSha

OtherTag(tag) == IF tag = "linux64" THEN "win64" ELSE "linux64"

\* download descriptors of the metadata feed for a host whose tag is tag
\* the values of the keys sha256, sha_256 and checksum of a descriptor
ShaFields == {<<"none", "none", "none">>, <<"bad", "none", "none">>,
              <<"d1", "none", "none">>, <<"bad", "d2", "none">>,
              <<"none", "none", "d1">>, <<"D2", "d1", "none">>}

FeedItems(tag) ==
  {[platform |-> pl, url |-> u, sha256 |-> f[1], sha_256 |-> f[2], checksum |-> f[3]] :
     pl \in {tag, OtherTag(tag)}, u \in Urls, f \in ShaFields}

GoodOther(tag) ==
  [platform |-> OtherTag(tag), url |-> Url(OfficialPrefix \o <<"chromedriver.zip">>),
   sha256 |-> "d2", sha_256 |-> "none", checksum |-> "none"]

\* milestones[str(browser_major)].downloads.chromedriver of the feed
FeedDownloads(tag) ==
  {<<>>} \cup {<<i>> : i \in FeedItems(tag)}
         \cup {<<GoodOther(tag), i>> : i \in FeedItems(tag)}

\* a selection that settles for the first descriptor of the list
SelectedFirst(downloads, tag) ==
  IF downloads = <<>> THEN NoItem ELSE Head(downloads)

\* next((item for item in downloads if item.get("platform") == tag), None)
RECURSIVE Selected(_, _)
Selected(downloads, tag) ==
  IF downloads = <<>> THEN NoItem
  ELSE IF Head(downloads).platform = tag THEN Head(downloads)
  ELSE Selected(Tail(downloads), tag)

\* archives the download can deliver
Archives ==
  {[digest |-> d, zipOk |-> c[1], hasBinary |-> c[2], major |-> c[3]] :
     d \in {"d1", "d2"},
     c \in {<<FALSE, FALSE, 0>>, <<TRUE, FALSE, 0>>, <<TRUE, TRUE, 0>>} \cup
           {<<TRUE, TRUE, m>> : m \in Majors}}

\* contents of the sidecar before the call
MetaRecord(tag, major, url, sha, at) ==
  [tag |-> tag, path |-> "destination", browser_major |-> major, download_url |-> url,
   archive_sha256 |-> sha, updated_at |-> at]

InitialMetas ==
  {NoMeta, [kind |-> "corrupt", drivers |-> {}],
   [kind |-> "json",
    drivers |-> {MetaRecord("win32", 120, Url(OfficialPrefix \o <<"old.zip">>), "d2", "earlier")}]}

InitialDests == {NoFile, [kind |-> "binary", major |-> 120], [kind |-> "broken", major |-> 0]}

InitDM ==
  /\ InitSession
  /\ dmPc = "start"
  /\ dmForce \in BOOLEAN
  /\ envOverride \in {"unset", "missing", "exists"}
  /\ envSystem \in Systems
  /\ envMachine \in Machines
  /\ isLinux = (envSystem = "linux")
  /\ fsDest \in InitialDests
  /\ fsTmp = NoFile
  /\ fsMeta \in InitialMetas
  /\ fsDest0 = fsDest
  /\ fsMeta0 = fsMeta
  /\ DmLocalsInit
  /\ TxIdle
  /\ PxIdle
  /\ VxIdle
  /\ AuxIdle

Return(path, sm) ==
  [kind |-> "return", driver_path |-> path, browser_binary |-> dmBrowser.binary,
   browser_major |-> dmBrowser.major, used_selenium_manager |-> sm]

Raise(exc) == [kind |-> "raise", exc |-> exc]

DmReturn(path, sm) == dmPc' = "returned" /\ dmResult' = Return(path, sm)

DmRaise(exc) == dmPc' = "raised" /\ dmResult' = Raise(exc)

\* a handler that absorbs only the resolver's own error class
InstallFailedNarrow(step, exc) ==
  /\ dmFailed' = step
  /\ dmExc' = exc
  /\ IF exc = "DriverInstallError" THEN DmReturn("none", TRUE) ELSE DmRaise(exc)

\* an exception of class exc leaves the install attempt at step:
\* except Exception logs it and returns the Selenium Manager fallback
InstallFailed(step, exc) ==
  /\ dmFailed' = step
  /\ dmExc' = exc
  /\ DmReturn("none", TRUE)

\* an override that a forced refresh passes over
OverrideAppliesUnlessForced == envOverride = "exists" /\ ~dmForce

\* settings.chromedriver_path_override is set and override.exists()
OverrideApplies == envOverride = "exists"

\* a reuse test that does not look at force_refresh
ChecksLocalDriverAlways == fsDest.kind # "absent"

\* not force_refresh and destination.exists()
ChecksLocalDriver == ~dmForce /\ fsDest.kind # "absent"

\* _resolve_browser_binary and _browser_major_version
DmResolveBrowser ==
  /\ dmPc = "start"
  /\ \/ DmRaise("BrowserNotFoundError") /\ UNCHANGED dmBrowser
     \/ DmRaise("RuntimeError") /\ UNCHANGED dmBrowser
     \/ \E b \in Majors :
          /\ dmBrowser' = [binary |-> "chrome", major |-> b]
          /\ dmPc' = "override"
          /\ UNCHANGED dmResult
  /\ UNCHANGED <<dmForce, envOverride, envSystem, envMachine, dmTarget, fsDest, fsTmp,
                 fsMeta, dmUrl, dmSha, dmAttempts, dmArchive, dmMetaNew, dmNet, dmFailed, dmExc>>
  /\ UNCHANGED <<dmSelected, dmDownloads, fsDest0, fsMeta0>>
  /\ UNCHANGED <<smVars, fnVars>>

\* the manual override, when configured and present on disk
DmCheckOverride ==
  /\ dmPc = "override"
  /\ IF OverrideApplies
     THEN DmReturn("override", FALSE)
     ELSE dmPc' = "target" /\ UNCHANGED dmResult
  /\ UNCHANGED <<dmForce, envOverride, envSystem, envMachine, dmBrowser, dmTarget, fsDest,
                 fsTmp, fsMeta, dmUrl, dmSha, dmAttempts, dmArchive, dmMetaNew, dmNet,
                 dmFailed, dmExc>>
  /\ UNCHANGED <<dmSelected, dmDownloads, fsDest0, fsMeta0>>
  /\ UNCHANGED <<smVars, fnVars>>

\* target = self._current_target(), outside the try block
DmCurrentTarget ==
  /\ dmPc = "target"
  /\ LET t == CurrentTarget(envSystem, envMachine)
     IN IF t = NoTarget
        THEN DmRaise("DriverInstallError") /\ UNCHANGED dmTarget
        ELSE dmTarget' = t /\ dmPc' = "local" /\ UNCHANGED dmResult
  /\ UNCHANGED <<dmForce, envOverride, envSystem, envMachine, dmBrowser, fsDest, fsTmp,
                 fsMeta, dmUrl, dmSha, dmAttempts, dmArchive, dmMetaNew, dmNet, dmFailed, dmExc>>
  /\ UNCHANGED <<dmSelected, dmDownloads, fsDest0, fsMeta0>>
  /\ UNCHANGED <<smVars, fnVars>>

\* reuse of the local driver: _driver_major_version(destination) runs
\* outside the try block
DmCheckLocal ==
  /\ dmPc = "local"
  /\ IF ChecksLocalDriver
     THEN IF fsDest.kind # "binary"
          THEN DmRaise("DriverInstallError")
          ELSE IF fsDest.major = dmBrowser.major
          THEN DmReturn("destination", FALSE)
          ELSE dmPc' = "fetch" /\ UNCHANGED dmResult
     ELSE dmPc' = "fetch" /\ UNCHANGED dmResult
  /\ UNCHANGED <<dmForce, envOverride, envSystem, envMachine, dmBrowser, dmTarget, fsDest,
                 fsTmp, fsMeta, dmUrl, dmSha, dmAttempts, dmArchive, dmMetaNew, dmNet,
                 dmFailed, dmExc>>
  /\ UNCHANGED <<dmSelected, dmDownloads, fsDest0, fsMeta0>>
  /\ UNCHANGED <<smVars, fnVars>>

\* _download_and_install_for_major up to the download: the feed, the
\* milestone, the descriptor of the target's platform, its URL and checksum
DmFetchJson ==
  /\ dmPc = "fetch"
  /\ dmNet' = Append(dmNet, FeedUrl)
  /\ \/ /\ InstallFailed("metadata_fetch", "DriverInstallError")
        /\ UNCHANGED <<dmUrl, dmSha, dmSelected, dmDownloads>>
     \/ /\ InstallFailed("metadata_shape", "AttributeError")
        /\ UNCHANGED <<dmUrl, dmSha, dmSelected, dmDownloads>>
     \/ /\ InstallFailed("milestone", "DriverInstallError")
        /\ UNCHANGED <<dmUrl, dmSha, dmSelected, dmDownloads>>
     \/ \E downloads \in FeedDownloads(dmTarget.cft_platform) :
          LET selected == Selected(downloads, dmTarget.cft_platform)
          IN /\ dmSelected' = selected
             /\ dmDownloads' = downloads
             /\ IF selected = NoItem
                THEN InstallFailed("platform", "DriverInstallError")
                     /\ UNCHANGED <<dmUrl, dmSha>>
                ELSE IF ~SafeUrl(selected.url)
                THEN InstallFailed("unsafe_url", "DriverInstallError")
                     /\ UNCHANGED <<dmUrl, dmSha>>
                ELSE IF ExtractSha256(selected) = NoSha
                THEN InstallFailed("checksum_missing", "DriverInstallError")
                     /\ UNCHANGED <<dmUrl, dmSha>>
                ELSE /\ dmUrl' = selected.url
                     /\ dmSha' = ExtractSha256(selected)
                     /\ dmPc' = "download"
                     /\ UNCHANGED <<dmResult, dmFailed, dmExc>>
  /\ UNCHANGED <<dmForce, envOverride, envSystem, envMachine, dmBrowser, dmTarget, fsDest,
                 fsTmp, fsMeta, dmAttempts, dmArchive, dmMetaNew>>
  /\ UNCHANGED <<fsDest0, fsMeta0>>
  /\ UNCHANGED <<smVars, fnVars>>

\* retries of _download_with_retries
Retries == 3

\* a loop that gives up one attempt early
ExhaustedEarly(n) == n >= Retries - 1

\* for _ in range(retries) has run n times: the loop ends and the raise
\* after it is reached
Exhausted(n) == n = Retries

\* one iteration of the loop of _download_with_retries
DmDownloadAttempt ==
  /\ dmPc = "download"
  /\ dmAttempts < Retries
  /\ dmAttempts' = dmAttempts + 1
  /\ dmNet' = Append(dmNet, dmUrl)
  /\ \/ \E a \in Archives :
          /\ dmArchive' = a
          /\ dmPc' = "verify"
          /\ UNCHANGED <<dmResult, dmFailed, dmExc>>
     \/ /\ IF Exhausted(dmAttempts')
           THEN InstallFailed("download", "DriverInstallError")
           ELSE UNCHANGED <<dmPc, dmResult, dmFailed, dmExc>>
        /\ UNCHANGED dmArchive
     \/ /\ InstallFailed("download", "HTTPException")
        /\ UNCHANGED dmArchive
  /\ UNCHANGED <<dmForce, envOverride, envSystem, envMachine, dmBrowser, dmTarget, fsDest,
                 fsTmp, fsMeta, dmUrl, dmSha, dmMetaNew>>
  /\ UNCHANGED <<dmSelected, dmDownloads, fsDest0, fsMeta0>>
  /\ UNCHANGED <<smVars, fnVars>>

\* a comparison that accepts every archive
ShaMatchesSkipped == TRUE

\* actual_sha256 == expected_sha256.lower()
ShaMatches == dmArchive.digest = Lower(dmSha)

\* _verify_sha256_or_raise
DmVerifySha ==
  /\ dmPc = "verify"
  /\ IF ~ShaMatches
     THEN InstallFailed("checksum_mismatch", "DriverInstallError")
     ELSE dmPc' = "extract" /\ UNCHANGED <<dmResult, dmFailed, dmExc>>
  /\ UNCHANGED <<dmForce, envOverride, envSystem, envMachine, dmBrowser, dmTarget, fsDest,
                 fsTmp, fsMeta, dmUrl, dmSha, dmAttempts, dmArchive, dmMetaNew, dmNet>>
  /\ UNCHANGED <<dmSelected, dmDownloads, fsDest0, fsMeta0>>
  /\ UNCHANGED <<smVars, fnVars>>

\* archive.extractall and _find_extracted_binary
DmExtract ==
  /\ dmPc = "extract"
  /\ IF ~dmArchive.zipOk
     THEN InstallFailed("extract", "BadZipFile")
     ELSE IF ~dmArchive.hasBinary
     THEN InstallFailed("binary_missing", "DriverInstallError")
     ELSE dmPc' = "copy" /\ UNCHANGED <<dmResult, dmFailed, dmExc>>
  /\ UNCHANGED <<dmForce, envOverride, envSystem, envMachine, dmBrowser, dmTarget, fsDest,
                 fsTmp, fsMeta, dmUrl, dmSha, dmAttempts, dmArchive, dmMetaNew, dmNet>>
  /\ UNCHANGED <<dmSelected, dmDownloads, fsDest0, fsMeta0>>
  /\ UNCHANGED <<smVars, fnVars>>

\* the binary found in the extracted archive
ExtractedBinary(a) ==
  IF a.major = 0 THEN [kind |-> "broken", major |-> 0]
                 ELSE [kind |-> "binary", major |-> a.major]

\* a copy that writes the destination in place
CopyOpensDestination ==
  /\ fsDest' = [kind |-> "partial", major |-> 0]
  /\ UNCHANGED fsTmp

\* copy2 opens final_tmp, beside the destination, for writing
CopyOpens ==
  /\ fsTmp' = [kind |-> "partial", major |-> 0]
  /\ UNCHANGED fsDest

\* shutil.copy2(extracted, final_tmp) has created the temporary file
DmCopyStart ==
  /\ dmPc = "copy"
  /\ CopyOpens
  /\ dmPc' = "copying"
  /\ UNCHANGED <<dmForce, envOverride, envSystem, envMachine, dmBrowser, dmTarget,
                 fsMeta, dmUrl, dmSha, dmAttempts, dmArchive, dmMetaNew, dmNet, dmFailed,
                 dmResult, dmExc>>
  /\ UNCHANGED <<dmSelected, dmDownloads, fsDest0, fsMeta0>>
  /\ UNCHANGED <<smVars, fnVars>>

\* copy2 and chmod finished, or the copy failed with the file half written
DmCopyDone ==
  /\ dmPc = "copying"
  /\ \/ /\ fsTmp' = ExtractedBinary(dmArchive)
        /\ dmPc' = "rename"
        /\ UNCHANGED <<dmResult, dmFailed, dmExc>>
     \/ /\ InstallFailed("copy", "OSError")
        /\ UNCHANGED fsTmp
  /\ UNCHANGED <<dmForce, envOverride, envSystem, envMachine, dmBrowser, dmTarget, fsDest,
                 fsMeta, dmUrl, dmSha, dmAttempts, dmArchive, dmMetaNew, dmNet>>
  /\ UNCHANGED <<dmSelected, dmDownloads, fsDest0, fsMeta0>>
  /\ UNCHANGED <<smVars, fnVars>>

\* final_tmp.replace(destination)
DmRename ==
  /\ dmPc = "rename"
  /\ \/ /\ fsDest' = fsTmp
        /\ fsTmp' = NoFile
        /\ dmPc' = "meta_read"
        /\ UNCHANGED <<dmResult, dmFailed, dmExc>>
     \/ /\ InstallFailed("rename", "OSError")
        /\ UNCHANGED <<fsDest, fsTmp>>
  /\ UNCHANGED <<dmForce, envOverride, envSystem, envMachine, dmBrowser, dmTarget,
                 fsMeta, dmUrl, dmSha, dmAttempts, dmArchive, dmMetaNew, dmNet>>
  /\ UNCHANGED <<dmSelected, dmDownloads, fsDest0, fsMeta0>>
  /\ UNCHANGED <<smVars, fnVars>>

\* _write_metadata: the old records are read (none when the file is absent
\* or not JSON), the record of the platform is set, write_text has opened
\* and truncated the file
DmMetaRead ==
  /\ dmPc = "meta_read"
  /\ \/ /\ LET old == IF fsMeta.kind = "json" THEN fsMeta.drivers ELSE {}
               kept == {m \in old : m.tag # dmTarget.cft_platform}
               new == MetaRecord(dmTarget.cft_platform, dmBrowser.major, dmUrl, dmSha, "now")
           IN dmMetaNew' = [kind |-> "json", drivers |-> kept \cup {new}]
        /\ fsMeta' = [kind |-> "partial", drivers |-> {}]
        /\ dmPc' = "meta_writing"
        /\ UNCHANGED <<dmResult, dmFailed, dmExc>>
     \/ /\ InstallFailed("metadata_write", "OSError")
        /\ UNCHANGED <<fsMeta, dmMetaNew>>
  /\ UNCHANGED <<dmForce, envOverride, envSystem, envMachine, dmBrowser, dmTarget, fsDest,
                 fsTmp, dmUrl, dmSha, dmAttempts, dmArchive, dmNet>>
  /\ UNCHANGED <<dmSelected, dmDownloads, fsDest0, fsMeta0>>
  /\ UNCHANGED <<smVars, fnVars>>

\* write_text wrote the whole text, or failed part way
DmMetaWriteDone ==
  /\ dmPc = "meta_writing"
  /\ \/ /\ fsMeta' = dmMetaNew
        /\ dmPc' = "post_version"
        /\ UNCHANGED <<dmResult, dmFailed, dmExc>>
     \/ /\ InstallFailed("metadata_write", "OSError")
        /\ UNCHANGED fsMeta
  /\ UNCHANGED <<dmForce, envOverride, envSystem, envMachine, dmBrowser, dmTarget, fsDest,
                 fsTmp, dmUrl, dmSha, dmAttempts, dmArchive, dmMetaNew, dmNet>>
  /\ UNCHANGED <<dmSelected, dmDownloads, fsDest0, fsMeta0>>
  /\ UNCHANGED <<smVars, fnVars>>

\* installed_major = _driver_major_version(destination) and the comparison
DmInstalledVersion ==
  /\ dmPc = "post_version"
  /\ IF fsDest.kind # "binary"
     THEN InstallFailed("version_read", "DriverInstallError")
     ELSE IF fsDest.major # dmBrowser.major
     THEN InstallFailed("version_mismatch", "DriverInstallError")
     ELSE DmReturn("destination", FALSE) /\ UNCHANGED <<dmFailed, dmExc>>
  /\ UNCHANGED <<dmForce, envOverride, envSystem, envMachine, dmBrowser, dmTarget, fsDest,
                 fsTmp, fsMeta, dmUrl, dmSha, dmAttempts, dmArchive, dmMetaNew, dmNet>>
  /\ UNCHANGED <<dmSelected, dmDownloads, fsDest0, fsMeta0>>
  /\ UNCHANGED <<smVars, fnVars>>

NextDM ==
  \/ DmResolveBrowser
  \/ DmCheckOverride
  \/ DmCurrentTarget
  \/ DmCheckLocal
  \/ DmFetchJson
  \/ DmDownloadAttempt
  \/ DmVerifySha
  \/ DmExtract
  \/ DmCopyStart
  \/ DmCopyDone
  \/ DmRename
  \/ DmMetaRead
  \/ DmMetaWriteDone
  \/ DmInstalledVersion

SpecDM == InitDM /\ [][NextDM]_vars

\* ------------------------------------------------ text functions (main.py)

Https == <<"h", "t", "t", "p", "s", ":", "/", "/">>
TMe == <<"t", ".", "m", "e">>
TelegramMe == <<"t", "e", "l", "e", "g", "r", "a", "m", ".", "m", "e">>
Slash == <<"/">>

Digits == {"0", "1", "2", "3", "4", "5", "6", "7", "8", "9"}
Letters == {"a", "b", "c", "d", "e", "f", "g", "h", "i", "j", "k", "l", "m", "n", "o", "p", "q", "r", "s", "t", "u", "v", "w", "x", "y", "z",
            "A", "B", "C", "D", "E", "F", "G", "H", "I", "J", "K", "L", "M", "N", "O", "P", "Q", "R", "S", "T", "U", "V", "W", "X", "Y", "Z"}
Alnum == Letters \cup Digits
WordChars == Alnum \cup {"_"}
WhiteSpace == {" "}

StartsWith(text, prefix) ==
  Len(text) >= Len(prefix) /\ SubSeq(text, 1, Len(prefix)) = prefix

EndsWith(text, suffix) ==
  Len(text) >= Len(suffix) /\ SubSeq(text, Len(text) + 1 - Len(suffix), Len(text)) = suffix

DropFirst(text, n) == SubSeq(text, n + 1, Len(text))

\* the positions where sub occurs in text
Occurrences(text, sub) ==
  {i \in 1..(Len(text) + 1 - Len(sub)) : SubSeq(text, i, i + Len(sub) - 1) = sub}

MinOf(S) == CHOOSE i \in S : \A j \in S : i <= j
MaxOf(S) == CHOOSE i \in S : \A j \in S : i >= j

\* text.split(sub)[0]
BeforeFirst(text, sub) ==
  IF Occurrences(text, sub) = {} THEN text
  ELSE SubSeq(text, 1, MinOf(Occurrences(text, sub)) - 1)

\* text.split(sub)[-1]
AfterLast(text, sub) ==
  IF Occurrences(text, sub) = {} THEN text
  ELSE DropFirst(text, MaxOf(Occurrences(text, sub)) + Len(sub) - 1)

\* text.split(sub), for a separator of one character
RECURSIVE Split(_, _)
Split(text, sub) ==
  IF Occurrences(text, sub) = {} THEN <<text>>
  ELSE <<BeforeFirst(text, sub)>> \o Split(DropFirst(text, MinOf(Occurrences(text, sub))), sub)

\* the longest prefix of text made of characters of S
RECURSIVE TakeWhile(_, _)
TakeWhile(text, S) ==
  IF text # <<>> /\ Head(text) \in S
  THEN <<Head(text)>> \o TakeWhile(Tail(text), S)
  ELSE <<>>

\* the longest prefix of text without a character of S
RECURSIVE TakeUntil(_, _)
TakeUntil(text, S) ==
  IF text # <<>> /\ Head(text) \notin S
  THEN <<Head(text)>> \o TakeUntil(Tail(text), S)
  ELSE <<>>

AllIn(text, S) == \A i \in 1..Len(text) : text[i] \in S

RECURSIVE StripLeft(_)
StripLeft(text) ==
  IF text # <<>> /\ Head(text) \in WhiteSpace THEN StripLeft(Tail(text)) ELSE text

RECURSIVE StripRight(_)
StripRight(text) ==
  IF text # <<>> /\ text[Len(text)] \in WhiteSpace
  THEN StripRight(SubSeq(text, 1, Len(text) - 1))
  ELSE text

\* text.strip()
Strip(text) == StripRight(StripLeft(text))

Str(value) == [kind |-> "str", value |-> value]
None == [kind |-> "none", value |-> <<>>]

\* re.match(r"^(https://)?(t\.me|telegram\.me)/[\w\d_]+(/\d+)+$", stripped)
LinkMatches(stripped) ==
  LET body == IF StartsWith(stripped, Https) THEN DropFirst(stripped, Len(Https))
              ELSE stripped
      host == IF StartsWith(body, TMe \o Slash) THEN TMe
              ELSE IF StartsWith(body, TelegramMe \o Slash) THEN TelegramMe
              ELSE <<>>
      segments == Split(DropFirst(body, Len(host) + 1), Slash)
  IN /\ host # <<>>
     /\ Len(segments) >= 2
     /\ segments[1] # <<>> /\ AllIn(segments[1], WordChars)
     /\ \A i \in 2..Len(segments) : segments[i] # <<>> /\ AllIn(segments[i], Digits)

\* validate_tg_link
ValidateTgLink(text) ==
  IF ~LinkMatches(Strip(text)) THEN None
  ELSE IF ~StartsWith(text, Https) THEN Str(Https \o Strip(text))
  ELSE Str(Strip(text))

\* normalized of _build_candidate_urls
Normalize(url) ==
  IF StartsWith(Strip(url), <<"h", "t", "t", "p">>) THEN Strip(url) ELSE Https \o Strip(url)

\* the preview address, when
\* re.match(r"https?://t\.me/([^/?#]+)/([\d/]+)", normalized) matches
PreviewUrls(normalized) ==
  LET rest == IF StartsWith(normalized, Https \o TMe \o Slash)
              THEN Str(DropFirst(normalized, Len(Https \o TMe \o Slash)))
              ELSE IF StartsWith(normalized, <<"h", "t", "t", "p", ":", "/", "/">> \o TMe \o Slash)
              THEN Str(DropFirst(normalized, Len(<<"h", "t", "t", "p", ":", "/", "/">> \o TMe \o Slash)))
              ELSE None
      slug == TakeUntil(rest.value, {"/", "?", "#"})
      tail == DropFirst(rest.value, Len(slug))
      ids == TakeWhile(DropFirst(tail, 1), Digits \cup {"/"})
      post_id == BeforeFirst(ids, Slash)
  IN IF rest # None /\ slug # <<>> /\ StartsWith(tail, Slash) /\ ids # <<>>
     THEN <<Https \o TMe \o <<"/", "s", "/">> \o slug \o Slash \o post_id>>
     ELSE <<>>

\* the two embed variants
EmbedUrls(normalized) ==
  IF Occurrences(normalized, <<"e", "m", "b", "e", "d", "=", "1">>) # {} THEN <<>>
  ELSE IF Occurrences(normalized, <<"?">>) # {}
  THEN <<normalized \o <<"&", "e", "m", "b", "e", "d", "=", "1">>, normalized \o <<"&", "e", "m", "b", "e", "d", "=", "1", "&", "m", "o", "d", "e", "=", "t", "m", "e">>>>
  ELSE <<normalized \o <<"?", "e", "m", "b", "e", "d", "=", "1">>, normalized \o <<"?", "e", "m", "b", "e", "d", "=", "1", "&", "m", "o", "d", "e", "=", "t", "m", "e">>>>

\* the single-item variant
SingleUrls(normalized) ==
  IF Occurrences(normalized, <<"?", "s", "i", "n", "g", "l", "e">>) # {} \/ Occurrences(normalized, <<"&", "s", "i", "n", "g", "l", "e">>) # {}
  THEN <<>>
  ELSE IF Occurrences(normalized, <<"?">>) # {}
  THEN <<normalized \o <<"&", "s", "i", "n", "g", "l", "e">>>>
  ELSE <<normalized \o <<"?", "s", "i", "n", "g", "l", "e">>>>

\* the loop that keeps the first occurrence of every address
RECURSIVE Unique(_, _)
Unique(urls, seen) ==
  IF urls = <<>> THEN <<>>
  ELSE IF Head(urls) \in seen THEN Unique(Tail(urls), seen)
  ELSE <<Head(urls)>> \o Unique(Tail(urls), seen \cup {Head(urls)})

\* a builder that appends the single-item variant before the embed variants
BuildCandidateUrlsSingleFirst(url) ==
  Unique(<<Normalize(url)>> \o PreviewUrls(Normalize(url)) \o SingleUrls(Normalize(url))
           \o EmbedUrls(Normalize(url)), {})

\* _build_candidate_urls
BuildCandidateUrls(url) ==
  Unique(<<Normalize(url)>> \o PreviewUrls(Normalize(url)) \o EmbedUrls(Normalize(url))
           \o SingleUrls(Normalize(url)), {})

\* re.sub(r"[^a-zA-Z0-9]", "_", text)
Underscored(text) == [i \in 1..Len(text) |-> IF text[i] \in Alnum THEN text[i] ELSE "_"]

\* cleaned_url + ".png" of capture_telegram_post
Filename(url) ==
  LET cleaned == Underscored(BeforeFirst(AfterLast(url, TMe \o Slash), <<"?", "e", "m", "b", "e", "d", "=", "1">>))
  IN (IF cleaned = <<>> THEN <<"p", "o", "s", "t">> ELSE cleaned) \o <<".", "p", "n", "g">>

\* the message texts that occur
Texts ==
  {lead \o scheme \o host \o Slash \o slug \o ids \o tail :
     lead \in {<<>>, <<" ">>},
     scheme \in {<<>>, Https, <<"h", "t", "t", "p", ":", "/", "/">>},
     host \in {TMe, TelegramMe},
     slug \in {<<"e", "x", "a", "m", "p", "l", "e", "c", "h", "a", "n">>, <<"c", "h", "a", "n">>, <<"a", "_", "b">>},
     ids \in {<<"/", "4", "2">>, <<"/", "4", "2", "/", "7">>},
     tail \in {<<>>, <<"?", "e", "m", "b", "e", "d", "=", "1">>, <<"?", "s", "i", "n", "g", "l", "e">>, <<"?", "x", "=", "1">>, <<" ">>}}

InitText ==
  /\ InitSession
  /\ DmIdle
  /\ PxIdle
  /\ VxIdle
  /\ AuxIdle
  /\ txText \in Texts
  /\ txUrl = Unset
  /\ txCandidates = Unset
  /\ txFilename = Unset

\* url = validate_tg_link(message.text or "")
CallValidateTgLink ==
  /\ txUrl = Unset
  /\ txUrl' = ValidateTgLink(txText)
  /\ UNCHANGED <<txText, txCandidates, txFilename>>
  /\ UNCHANGED <<smVars, dmVars, pxVars, vxVars, auxVars>>

\* candidates = _build_candidate_urls(url)
CallBuildCandidateUrls ==
  /\ txCandidates = Unset
  /\ txCandidates' = Str(BuildCandidateUrls(txText))
  /\ UNCHANGED <<txText, txUrl, txFilename>>
  /\ UNCHANGED <<smVars, dmVars, pxVars, vxVars, auxVars>>

\* the filename of a capture that succeeded, for the validated link
CallFilename ==
  /\ txUrl.kind = "str"
  /\ txFilename = Unset
  /\ txFilename' = Str(Filename(txUrl.value))
  /\ UNCHANGED <<txText, txUrl, txCandidates>>
  /\ UNCHANGED <<smVars, dmVars, pxVars, vxVars, auxVars>>

NextText == CallValidateTgLink \/ CallBuildCandidateUrls \/ CallFilename

SpecText == InitText /\ [][NextText]_vars

\* ----------------------------------------- _remove_green_pixels_sync

\* addition of two int16 values, as numpy computes it
AddInt16(x, y) == ((x + y + 32768) % 65536) - 32768

\* a mask that keys on pure green only
IsBackgroundPureGreen(r, g, b) == r = 0 /\ g = 255 /\ b = 0

\* a test that takes every pixel where green dominates
IsBackgroundAnyGreen(r, g, b) == g > AddInt16(r, 20) /\ g > AddInt16(b, 20)

\* the mask of the pixels that belong to the green background
IsBackground(r, g, b) ==
  /\ r >= 30 /\ r <= 90 /\ g >= 220 /\ b <= 50
  /\ g > AddInt16(r, 20) /\ g > AddInt16(b, 20)

\* the output pixel: numpy clears the alpha channel of a masked pixel, the
\* loop without numpy replaces the pixel by (0, 0, 0, 0)
RemoveGreenPixel(px, numpy) ==
  IF IsBackground(px.r, px.g, px.b)
  THEN IF numpy THEN [px EXCEPT !.a = 0] ELSE [r |-> 0, g |-> 0, b |-> 0, a |-> 0]
  ELSE px

\* the channel values that occur
Pixels == [r : {0, 29, 30, 60, 90, 91, 255}, g : {0, 128, 219, 220, 255},
           b : {0, 50, 51, 60, 255}, a : {0, 128, 255}]

\* the background _selenium_capture sets on the document and its body,
\* without the leading #
BackgroundColour == <<"3", "9", "f", "f", "0", "0">>

HexDigits == <<"0", "1", "2", "3", "4", "5", "6", "7", "8", "9",
               "a", "b", "c", "d", "e", "f">>

HexValue(c) == (CHOOSE i \in 1..16 : HexDigits[i] = c) - 1

\* the colour a browser paints for the CSS value #rrggbb
CssColour(hex) ==
  [r |-> 16 * HexValue(hex[1]) + HexValue(hex[2]),
   g |-> 16 * HexValue(hex[3]) + HexValue(hex[4]),
   b |-> 16 * HexValue(hex[5]) + HexValue(hex[6])]

\* the pixels of the screenshot that show the background, which is opaque
BackgroundPixels ==
  LET c == CssColour(BackgroundColour)
  IN {[r |-> c.r, g |-> c.g, b |-> c.b, a |-> 255]}

InitPixel ==
  /\ InitSession
  /\ DmIdle
  /\ TxIdle
  /\ VxIdle
  /\ AuxIdle
  /\ pxIn \in Pixels \cup BackgroundPixels
  /\ pxNumpy \in BOOLEAN
  /\ pxOut = NoPixelOut

\* one pixel of the image goes through the stripping
RemoveGreenPixelsSync ==
  /\ pxOut = NoPixelOut
  /\ pxOut' = [kind |-> "set", px |-> RemoveGreenPixel(pxIn, pxNumpy)]
  /\ UNCHANGED <<pxIn, pxNumpy>>
  /\ UNCHANGED <<smVars, dmVars, txVars, vxVars, auxVars>>

NextPixel == RemoveGreenPixelsSync

SpecPixel == InitPixel /\ [][NextPixel]_vars

\* ------------------------------------------------------ _extract_major

\* the number of times _extract_major is applied to one version output
MaxCalls == 2

DigitValue(c) ==
  CASE c = "0" -> 0 [] c = "1" -> 1 [] c = "2" -> 2 [] c = "3" -> 3 [] c = "4" -> 4
    [] c = "5" -> 5 [] c = "6" -> 6 [] c = "7" -> 7 [] c = "8" -> 8 [] c = "9" -> 9

\* int(digits)
RECURSIVE IntOf(_)
IntOf(digits) ==
  IF digits = <<>> THEN 0
  ELSE 10 * IntOf(SubSeq(digits, 1, Len(digits) - 1)) + DigitValue(digits[Len(digits)])

Major(n) == [kind |-> "int", value |-> n, exc |-> "none"]
RuntimeError == [kind |-> "raise", value |-> 0, exc |-> "RuntimeError"]

\* a pattern without the \. after the group
FollowedByAnything(text, j) == TRUE

\* the \. of the pattern matches at position j
FollowedByDot(text, j) == j <= Len(text) /\ text[j] = "."

\* re.search(r"(\d+)\.", text) trying the start positions from i on: at a
\* start position \d+ takes the whole run of digits, and giving digits back
\* cannot help since the character after a shorter run is a digit
RECURSIVE SearchMajor(_, _)
SearchMajor(text, i) ==
  IF i > Len(text) THEN <<>>
  ELSE LET run == TakeWhile(DropFirst(text, i - 1), Digits)
       IN IF run # <<>> /\ FollowedByDot(text, i + Len(run)) THEN <<run>>
          ELSE SearchMajor(text, i + 1)

\* _extract_major(version_output, name)
ExtractMajor(version_output) ==
  LET match == SearchMajor(version_output, 1)
  IN IF match = <<>> THEN RuntimeError ELSE Major(IntOf(match[1]))

\* what the browser or the driver may print for --version, stripped
VersionOutputs ==
  {prefix \o core \o suffix :
     prefix \in {<<>>, <<"G", "o", "o", "g", "l", "e", " ", "C", "h", "r", "o", "m", "e", " ">>, <<"v">>, <<"1", " ", "2">>},
     core \in {<<"1", "2", "0", ".", "0", ".", "6", "0", "9", "9", ".", "1", "0", "9">>, <<"1", "2", "1", ".", "0">>, <<"1", "2", "0">>, <<"1", "2", "a", "3", "4", ".", "5">>, <<".", "5">>, <<>>, <<"7", ".">>, <<"0", "0", "7", ".", "1">>, <<"9", " ", "1", "0", ".", "2">>},
     suffix \in {<<>>, <<" ", "(", "a", "b", "c", ")">>, <<".">>}}

InitVersion ==
  /\ InitSession
  /\ DmIdle
  /\ TxIdle
  /\ PxIdle
  /\ AuxIdle
  /\ vxOutput \in VersionOutputs
  /\ vxResults = <<>>

\* one call of _extract_major on the version output
CallExtractMajor ==
  /\ Len(vxResults) < MaxCalls
  /\ vxResults' = Append(vxResults, ExtractMajor(vxOutput))
  /\ UNCHANGED vxOutput
  /\ UNCHANGED <<smVars, dmVars, txVars, pxVars, auxVars>>

NextVersion == CallExtractMajor

SpecVersion == InitVersion /\ [][NextVersion]_vars

\* ------------------------------------- _selenium_capture: candidate loop

\* what a page holds: for the top-level document, whether driver.get raises
\* ("get_raises"), or _wait_and_pick returns an element, returns None,
\* times out or raises another exception; and the same for each matching
\* iframe, in document order
Page(top, frames) == [top |-> top, frames |-> frames]

Pages ==
  {Page("get_raises", <<>>), Page("element", <<>>), Page("raises", <<>>)} \cup
  {Page(top, frames) :
     top \in {"none", "timeout"},
     frames \in {<<>>, <<"element">>, <<"timeout">>, <<"none", "element">>,
                 <<"raises", "timeout">>, <<"timeout", "none">>}}

\* the pages behind the list of _build_candidate_urls, which is never empty
CandidatePages ==
  {<<p>> : p \in Pages} \cup {<<p, q>> : p, q \in Pages}
    \cup {<<p, q, r>> : p, q, r \in Pages}

InitCapture ==
  /\ InitSession
  /\ DmIdle
  /\ TxIdle
  /\ PxIdle
  /\ VxIdle
  /\ CrIdle
  /\ LgIdle
  /\ RlIdle
  /\ cpPages \in CandidatePages
  /\ cpPc = "get"
  /\ CpLocalsInit

CpKeep == UNCHANGED <<smVars, dmVars, txVars, pxVars, vxVars, crVars, lgVars, rlVars>>

\* a loop that goes on to the next candidate with an element in hand
BreakNever(post_element) == FALSE

\* "if post_element is not None: break"
Break(post_element) == post_element # NoProbe

\* the end of the body of "for attempt_url in candidates" with post_element
\* as it is then: break, the next candidate, or the raise after the loop
CpEndOfCandidate(post_element) ==
  IF Break(post_element)
  THEN /\ cpPc' = "done"
       /\ cpResult' = [kind |-> "return", exc |-> "none", at |-> post_element]
  ELSE IF cpUrl < Len(cpPages)
  THEN cpPc' = "get" /\ UNCHANGED cpResult
  ELSE /\ cpPc' = "done"
       /\ cpResult' = [kind |-> "raise", exc |-> "TimeoutException", at |-> cpLastExc']

\* an exception leaves _selenium_capture from the probe at
CpPropagate(at) ==
  /\ cpPc' = "done"
  /\ cpResult' = [kind |-> "raise", exc |-> "WebDriverException", at |-> at]

\* driver.switch_to.default_content() and driver.get(attempt_url) of the
\* next candidate
CpGet ==
  /\ cpPc = "get"
  /\ cpUrl' = cpUrl + 1
  /\ cpLog' = Append(cpLog, Probe(cpUrl', -1))
  /\ IF cpPages[cpUrl'].top = "get_raises"
     THEN CpPropagate(Probe(cpUrl', -1))
     ELSE cpPc' = "top" /\ UNCHANGED cpResult
  /\ UNCHANGED <<cpPages, cpFrame, cpPostElement, cpActiveFrame, cpLastExc>>
  /\ CpKeep

\* _wait_and_pick() on the top-level document, then, when it gave no
\* element, driver.find_elements for the matching iframes
CpProbeTop ==
  /\ cpPc = "top"
  /\ cpLog' = Append(cpLog, Probe(cpUrl, 0))
  /\ cpFrame' = 0
  /\ LET top == cpPages[cpUrl].top
     IN CASE top = "element" ->
               /\ cpPostElement' = Probe(cpUrl, 0)
               /\ cpActiveFrame' = 0
               /\ UNCHANGED cpLastExc
               /\ CpEndOfCandidate(cpPostElement')
          [] top = "raises" ->
               /\ CpPropagate(Probe(cpUrl, 0))
               /\ UNCHANGED <<cpPostElement, cpActiveFrame, cpLastExc>>
          [] top \in {"none", "timeout"} ->
               /\ cpPostElement' = NoProbe
               /\ cpActiveFrame' = IF top = "none" THEN 0 ELSE cpActiveFrame
               /\ cpLastExc' = IF top = "timeout" THEN Probe(cpUrl, 0) ELSE cpLastExc
               /\ IF cpPages[cpUrl].frames = <<>>
                  THEN CpEndOfCandidate(NoProbe)
                  ELSE cpPc' = "frame" /\ UNCHANGED cpResult
  /\ UNCHANGED <<cpPages, cpUrl>>
  /\ CpKeep

\* one iteration of "for frame in frames"
CpProbeFrame ==
  /\ cpPc = "frame"
  /\ cpFrame' = cpFrame + 1
  /\ cpLog' = Append(cpLog, Probe(cpUrl, cpFrame'))
  /\ LET frame == cpPages[cpUrl].frames[cpFrame']
         last == cpFrame' = Len(cpPages[cpUrl].frames)
     IN /\ cpPostElement' = IF frame = "element" THEN Probe(cpUrl, cpFrame') ELSE NoProbe
        /\ cpActiveFrame' = IF frame = "element" THEN cpFrame' ELSE cpActiveFrame
        /\ cpLastExc' = IF frame = "timeout" THEN Probe(cpUrl, cpFrame') ELSE cpLastExc
        /\ IF frame = "element" \/ last
           THEN CpEndOfCandidate(cpPostElement')
           ELSE UNCHANGED <<cpPc, cpResult>>
  /\ UNCHANGED <<cpPages, cpUrl>>
  /\ CpKeep

NextCapture == CpGet \/ CpProbeTop \/ CpProbeFrame

SpecCapture == InitCapture /\ [][NextCapture]_vars

\* --------------------------------- _selenium_capture: viewport crop

\* int(value * scale) for a scale given in halves: int() rounds toward zero
Scaled(value, scale) ==
  IF value * scale >= 0 THEN (value * scale) \div 2 ELSE -((-(value * scale)) \div 2)

Max(a, b) == IF a >= b THEN a ELSE b
Min(a, b) == IF a <= b THEN a ELSE b

\* a test that lets a box without area through
DegenerateStrict(left, top, right, bottom) == right < left \/ bottom < top

\* "if right <= left or bottom <= top"
Degenerate(left, top, right, bottom) == right <= left \/ bottom <= top

\* the except branch of "screenshot = post_element.screenshot_as_png"
CropBox ==
  IF ~crRect.measured
  THEN [kind |-> "raise", left |-> 0, top |-> 0, right |-> 0, bottom |-> 0]
  ELSE LET left == Max(Scaled(crRect.left, crScale), 0)
           top == Max(Scaled(crRect.top, crScale), 0)
           width == Max(Scaled(crRect.width, crScale), 1)
           height == Max(Scaled(crRect.height, crScale), 1)
           right == Min(left + width, crImage.width)
           bottom == Min(top + height, crImage.height)
       IN IF Degenerate(left, top, right, bottom)
          THEN [kind |-> "raise", left |-> 0, top |-> 0, right |-> 0, bottom |-> 0]
          ELSE [kind |-> "return", left |-> left, top |-> top, right |-> right,
                bottom |-> bottom]

\* rectangles getBoundingClientRect can report, and None
Rects ==
  {NoRect} \cup
  {[measured |-> TRUE, left |-> l, top |-> t, width |-> w, height |-> h] :
     l \in {-3, 0, 3, 5}, t \in {-3, 0, 3, 5}, w \in {0, 1, 2, 5}, h \in {0, 1, 2, 5}}

InitCrop ==
  /\ InitSession
  /\ DmIdle
  /\ TxIdle
  /\ PxIdle
  /\ VxIdle
  /\ CpIdle
  /\ LgIdle
  /\ RlIdle
  /\ crRect \in Rects
  /\ crScale \in {2, 3, 4}
  /\ crImage \in {[width |-> w, height |-> h] : w \in {4, 7}, h \in {4, 7}}
  /\ crResult = NoCropResult

\* the element screenshot raised WebDriverException
CropFallback ==
  /\ crResult = NoCropResult
  /\ crResult' = CropBox
  /\ UNCHANGED <<crRect, crScale, crImage>>
  /\ UNCHANGED <<smVars, dmVars, txVars, pxVars, vxVars, cpVars, lgVars, rlVars>>

NextCrop == CropFallback

SpecCrop == InitCrop /\ [][NextCrop]_vars

\* ------------------------------------- _trim_chromedriver_log_if_needed

\* the bytes of the log: "a" a byte of valid UTF-8 text, "X" a byte that is
\* not valid UTF-8, "CR" and "LF"; "FFFD" stands for the three bytes that
\* encode the replacement character U+FFFD
LogBytes == {"a", "X", "CR", "LF"}

\* the text that open(..., encoding="utf-8", errors="replace") hands to the
\* reader: undecodable bytes become U+FFFD, and with universal newlines
\* \r\n and \r become \n
RECURSIVE Decode(_)
Decode(bytes) ==
  IF bytes = <<>> THEN <<>>
  ELSE IF Head(bytes) = "X" THEN <<"FFFD">> \o Decode(Tail(bytes))
  ELSE IF Head(bytes) = "CR"
  THEN <<"LF">> \o Decode(IF Len(bytes) >= 2 /\ bytes[2] = "LF"
                           THEN Tail(Tail(bytes)) ELSE Tail(bytes))
  ELSE <<Head(bytes)>> \o Decode(Tail(bytes))

\* fh.readlines(): the text cut after every \n
RECURSIVE ReadLines(_)
ReadLines(text) ==
  IF text = <<>> THEN <<>>
  ELSE LET line == TakeUntil(text, {"LF"})
       IN IF Len(line) = Len(text) THEN <<line>>
          ELSE <<line \o <<"LF">>>> \o ReadLines(DropFirst(text, Len(line) + 1))

\* fh.writelines(tail), on a host whose line separator is \n
RECURSIVE WriteLines(_)
WriteLines(lines) ==
  IF lines = <<>> THEN <<>> ELSE Head(lines) \o WriteLines(Tail(lines))

\* a slice that keeps the oldest lines
KeptLinesFirst(lines) == SubSeq(lines, 1, CHROMEDRIVER_LOG_KEEP_LINES)

\* lines[-_CHROMEDRIVER_LOG_KEEP_LINES:]
KeptLines(lines) ==
  SubSeq(lines, Len(lines) + 1 - CHROMEDRIVER_LOG_KEEP_LINES, Len(lines))

\* the file after a call in which nothing raises
Trimmed(file) ==
  IF ~file.exists THEN file
  ELSE IF Len(file.bytes) <= CHROMEDRIVER_LOG_MAX_BYTES THEN file
  ELSE LET lines == ReadLines(Decode(file.bytes))
       IN IF Len(lines) <= CHROMEDRIVER_LOG_KEEP_LINES THEN file
          ELSE [exists |-> TRUE, bytes |-> WriteLines(KeptLines(lines))]

\* the file after a call in which the write raised: nothing written yet, or
\* the tail written over the start of the file and the rest not truncated
PartlyWritten(file) ==
  LET new == Trimmed(file).bytes
  IN {file, [exists |-> TRUE,
             bytes |-> new \o SubSeq(file.bytes, Len(new) + 1, Len(file.bytes))]}

RECURSIVE ByteSeqs(_)
ByteSeqs(n) ==
  IF n = 0 THEN {<<>>}
  ELSE ByteSeqs(n - 1) \cup
       {Append(b, c) : b \in {x \in ByteSeqs(n - 1) : Len(x) = n - 1}, c \in LogBytes}

InitLog ==
  /\ InitSession
  /\ DmIdle
  /\ TxIdle
  /\ PxIdle
  /\ VxIdle
  /\ CpIdle
  /\ CrIdle
  /\ RlIdle
  /\ lgFile \in {NoLog} \cup {[exists |-> TRUE, bytes |-> b] : b \in ByteSeqs(MaxLogBytes)}
  /\ lgFile0 = lgFile
  /\ lgFault = "none"
  /\ lgPc = "call"

\* an except clause that lets the exception through

\* "except Exception as exc: logger.warning(...)": the function returns
TrimFailed == lgPc' = "returned"

\* _trim_chromedriver_log_if_needed(): it runs through, or exists, stat,
\* open or readlines raises, or a write raises once the lines are read
TrimChromedriverLogIfNeeded ==
  /\ lgPc = "call"
  /\ \/ /\ lgFault' = "none"
        /\ lgFile' = Trimmed(lgFile)
        /\ lgPc' = "returned"
     \/ /\ lgFault' = "read"
        /\ lgFile' = lgFile
        /\ TrimFailed
     \/ /\ Trimmed(lgFile) # lgFile
        /\ lgFault' = "write"
        /\ lgFile' \in PartlyWritten(lgFile)
        /\ TrimFailed
  /\ UNCHANGED lgFile0
  /\ UNCHANGED <<smVars, dmVars, txVars, pxVars, vxVars, cpVars, crVars, rlVars>>

NextLog == TrimChromedriverLogIfNeeded

SpecLog == InitLog /\ [][NextLog]_vars

\* ------------------------------------------- _rate_limit_retry_after

\* a limiter that lets a request through one second early
TooEarlyByMoreThanOne(retry_after) == retry_after > 1

\* "if retry_after > 0" of _rate_limit_retry_after
TooEarly(retry_after) == retry_after > 0

\* _rate_limit_retry_after(user_id) with time.monotonic() = now: the value
\* returned and _last_user_request_ts afterwards. The coroutine has no
\* point of suspension: _rate_limit_lock is never held across an await, so
\* its acquire returns at once
RateLimitRetryAfter(user_id, now) ==
  IF rlLimit <= 0
  THEN [retry_after |-> 0, table |-> rlLastTs]
  ELSE LET last_seen == rlLastTs[user_id]
           retry_after == rlLimit - (now - last_seen)
       IN IF last_seen # NoTs /\ TooEarly(retry_after)
          THEN [retry_after |-> retry_after, table |-> rlLastTs]
          ELSE [retry_after |-> 0, table |-> [rlLastTs EXCEPT ![user_id] = now]]

InitRate ==
  /\ InitSession
  /\ DmIdle
  /\ TxIdle
  /\ PxIdle
  /\ VxIdle
  /\ CpIdle
  /\ CrIdle
  /\ LgIdle
  /\ rlLimit \in 0..MaxRateLimit
  /\ rlClock = 0
  /\ rlLastTs = [u \in Users |-> NoTs]
  /\ rlCalls = <<>>

RlKeep == UNCHANGED <<smVars, dmVars, txVars, pxVars, vxVars, cpVars, crVars, lgVars>>

\* the monotonic clock advances
ClockTick ==
  /\ rlClock < MaxClock
  /\ rlClock' = rlClock + 1
  /\ UNCHANGED <<rlLimit, rlLastTs, rlCalls>>
  /\ RlKeep

\* handle_post_link for a valid link of a user, up to the call of
\* _acquire_capture_slot: a positive retry_after is answered with
\* "user.rate_limited" and the handler returns
HandlePostLinkRateLimit(user_id) ==
  /\ Len(rlCalls) < MaxRateCalls
  /\ LET res == RateLimitRetryAfter(user_id, rlClock)
     IN /\ rlLastTs' = res.table
        /\ rlCalls' = Append(rlCalls, [user |-> user_id, now |-> rlClock,
                                       retry_after |-> res.retry_after,
                                       slot |-> ~(res.retry_after > 0)])
  /\ UNCHANGED <<rlLimit, rlClock>>
  /\ RlKeep

NextRate == ClockTick \/ \E u \in Users : HandlePostLinkRateLimit(u)

SpecRate == InitRate /\ [][NextRate]_vars

\* ------------------------------------------------------------ properties

Capturing(r) == pc[r] \in {"capture1", "capture2"}

\* the request is inside "async with _driver_lock"
InCaptureLock(r) ==
  \/ pc[r] \in {"capture1", "capture2", "fault_quit", "fault_cleanup", "report_locked"}
  \/ force[r] /\ pc[r] \in {"boot_wait", "refresh_quit", "refresh_cleanup",
                              "resolving", "creating"}

InFlight(r) == pc[r] \notin {"idle", "done"}

SlotHolders == {r \in Reqs : holdsSlot[r]}

SessionIds == 1..Len(sessions)

\* C1: a request that is executing _selenium_capture (first attempt or
\* retry) holds the capture lock, and while it does no other request is
\* anywhere inside the capture-locked region
C1_CaptureExclusive ==
  \A r \in Reqs :
     Capturing(r) =>
       /\ driverLock = r
       /\ \A q \in Reqs \ {r} : ~InCaptureLock(q)

\* a retry capture is running while another request waits for the lock
C1_Witness ==
  \E r, q \in Reqs : r # q /\ pc[r] = "capture2" /\ pc[q] = "lock_wait"

\* C2: per request at most one forced refresh and at most two capture
\* attempts; a SessionNotCreated fault of the first attempt leads to the one
\* forced refresh, only that refresh leads to the second attempt, and after
\* a failed refresh or retry the request only reports and ends
C2_OneRefreshOneRetry ==
  \A r \in Reqs :
     /\ refreshes[r] <= 1
     /\ captures[r] <= 2
     /\ (captures[r] = 2) => (refreshes[r] = 1)
     /\ (refreshes[r] = 1) <=> (fault[r] \in {"snc", "retry_fault"})
     /\ (fault[r] = "snc") =>
           pc[r] \in {"boot_wait", "refresh_quit", "refresh_cleanup", "resolving",
                      "creating", "capture2", "processing", "report_locked",
                      "report_fail"}
     /\ (fault[r] = "snc" /\ pc[r] \in {"capture2", "processing"}) => captures[r] = 2
     /\ (fault[r] = "retry_fault") =>
           (pc[r] \in {"report_locked", "report_fail"} /\ captures[r] = 2)

\* a request gave up after its retry failed and a later request captures
C2_Witness ==
  \E r, q \in Reqs :
     /\ pc[r] = "report_fail" /\ fault[r] = "retry_fault"
     /\ q > r /\ pc[q] = "capture1" /\ capSess[q] # NoSession

\* C3: when a request whose capture faulted (first attempt with a fault other
\* than SessionNotCreated, or the retry) releases the capture lock, the
\* session it captured against has been discarded: the slot is empty, at the
\* least it no longer holds that session, and quit has been called on it
C3_FaultedSessionDiscarded ==
  [][\A r \in Reqs :
       (/\ driverLock = r /\ driverLock' # r
        /\ fault[r] \in {"fault", "retry_fault"}
        /\ capSess[r] # NoSession) =>
          /\ driver' # capSess[r]
          /\ sessions'[capSess[r]].st \in {"quit", "quit_failed"}]_vars

\* C4: a request that has ended holds neither lock nor a slot, the
\* semaphore counts exactly the slots held, and with no request in flight
\* both locks are free and every slot is available
C4_AllReleased ==
  /\ \A r \in Reqs : ~InFlight(r) => (bootLock # r /\ driverLock # r /\ ~holdsSlot[r])
  /\ slots = CAPTURE_QUEUE_LIMIT - Cardinality(SlotHolders)
  /\ (\A r \in Reqs : ~InFlight(r)) =>
        (bootLock = NoReq /\ driverLock = NoReq /\ slots = CAPTURE_QUEUE_LIMIT)

\* every request has ended, by an exception while reporting, by a failure
\* and by rejection
C4_Witness ==
  /\ \A r \in Reqs : pc[r] = "done"
  /\ \E r \in Reqs : outcome[r] = "raised"
  /\ \E r \in Reqs : outcome[r] = "failed"

\* C5: every admitted request eventually ends (no deadlock between the
\* capture lock and the boot lock), given that every operation returns
C5_AdmittedCompletes ==
  \A r \in Reqs : holdsSlot[r] ~> (pc[r] = "done")

\* a request holds the capture lock and the boot lock for a forced refresh
\* while another request waits for the boot lock in _ensure_driver(False)
C5_Witness ==
  \E r, q \in Reqs :
     /\ r # q
     /\ force[r] /\ driverLock = r /\ bootLock = r
     /\ pc[q] = "boot_wait" /\ ~force[q]

\* C6: never more than CAPTURE_QUEUE_LIMIT slot holders; a request without
\* a slot is outside _ensure_driver and the capture lock; the timeout step
\* rejects the request and changes nothing else
C6_AdmissionBound ==
  /\ [](/\ Cardinality(SlotHolders) <= CAPTURE_QUEUE_LIMIT
        /\ \A r \in Reqs :
              ~holdsSlot[r] => /\ pc[r] \in {"idle", "slot_wait", "done"}
                               /\ bootLock # r /\ driverLock # r)
  /\ [][\A r \in Reqs :
          (pc[r] = "slot_wait" /\ pc'[r] = "done") =>
             /\ outcome'[r] = "rejected"
             /\ UNCHANGED <<driver, sessions, bootLock, driverLock, slots, holdsSlot,
                            captures, refreshes>>]_vars

\* a request was rejected while the limit of requests is in flight
C6_Witness ==
  /\ \E r \in Reqs : outcome[r] = "rejected"
  /\ Cardinality(SlotHolders) = CAPTURE_QUEUE_LIMIT

Constructing(r) == pc[r] \in {"resolving", "creating"}

\* C7: a request resolves or constructs only while it holds the boot lock
\* and the slot is empty (so no caller constructs once the slot is filled),
\* and as long as no session has been torn down at most one was constructed
C7_SingleBoot ==
  /\ \A r \in Reqs : Constructing(r) => (bootLock = r /\ driver = NoSession)
  /\ (\A s \in SessionIds : sessions[s].st = "live") => Len(sessions) <= 1

\* one first-request constructs while another waits for the boot lock, and
\* one session serves two requests that called _ensure_driver concurrently
C7_Witness ==
  \E r, q \in Reqs :
     /\ r # q
     /\ pc[r] = "lock_wait" /\ pc[q] = "lock_wait"
     /\ Len(sessions) = 1 /\ driver = 1

\* a session is live from its construction until quit has returned
Live(s) == sessions[s].st \in {"live", "quitting"}

\* C8: at most one browser session is live at any moment
C8_AtMostOneLive ==
  Cardinality({s \in SessionIds : Live(s)}) <= 1

\* C9: once a forced refresh was invoked on a session, every capture attempt
\* in progress runs against a session that is present and is not the old
\* one, and the old session's profile directory is not on disk
C9_RefreshRebuilds ==
  \A r \in Reqs :
     (force[r] /\ stale[r] # NoSession) =>
        \A q \in Reqs :
           Capturing(q) =>
              /\ sessions[stale[r]].dir \notin dirsOnDisk
              /\ capSess[q] \notin {NoSession, stale[r]}

\* C10: when a step of the download-and-install attempt has failed,
\* resolve_driver has not raised: it has returned a resolution without a
\* driver path, flagged used_selenium_manager, that carries the browser
\* binary and major version resolved at the start
C10_InstallFailureFallsBack ==
  (dmFailed # "none") =>
     /\ dmPc = "returned"
     /\ dmResult = [kind |-> "return", driver_path |-> "none",
                    browser_binary |-> dmBrowser.binary,
                    browser_major |-> dmBrowser.major,
                    used_selenium_manager |-> TRUE]
     /\ dmBrowser.binary = "chrome" /\ dmBrowser.major \in Majors

\* the archive was not a zip file: an exception that is not a
\* DriverInstallError ended the install and the fallback was returned
C10_Witness ==
  /\ dmFailed = "extract"
  /\ dmPc = "returned"
  /\ dmResult.used_selenium_manager

\* C11: on a supported host, once the browser binary and its major version
\* are resolved, resolve_driver does not raise: the only exception it lets
\* through is BrowserNotFoundError
C11_DriverFailureAbsorbed ==
  (dmPc = "raised" /\ dmTarget # NoTarget) => dmResult.exc = "BrowserNotFoundError"

\* C12: a descriptor without a valid checksum, or an archive whose digest
\* differs from the expected one, ends the install with DriverInstallError,
\* nothing past the verification runs, and the destination is the file it
\* was when resolve_driver was called
C12_NoUnverifiedInstall ==
  /\ (dmSelected # NoItem /\ ExtractSha256(dmSelected) = NoSha) =>
        /\ dmPc = "returned"
        /\ dmFailed \in {"unsafe_url", "checksum_missing"}
        /\ dmExc = "DriverInstallError"
        /\ dmArchive = NoArchive
        /\ fsDest = fsDest0
  /\ (dmArchive # NoArchive /\ dmArchive.digest # dmSha) =>
        /\ dmPc \in {"verify", "returned"}
        /\ (dmPc = "returned") =>
              (dmFailed = "checksum_mismatch" /\ dmExc = "DriverInstallError")
        /\ fsDest = fsDest0

\* a forced refresh over an existing driver downloaded an archive with the
\* wrong digest: the install was abandoned and the old driver is in place
C12_Witness ==
  /\ dmFailed = "checksum_mismatch"
  /\ dmArchive.digest # dmSha
  /\ fsDest0.kind = "binary" /\ fsDest = fsDest0

\* C13: the destination is always the file that was there before, or the
\* complete binary of an archive whose digest was verified; it changes only
\* in the rename step, to the completely written temporary file
C13_AtomicInstall ==
  /\ [](\/ /\ fsDest = fsDest0
           /\ dmPc \notin {"meta_read", "meta_writing", "post_version"}
        \/ /\ fsDest = ExtractedBinary(dmArchive)
           /\ dmArchive # NoArchive /\ dmArchive.digest = dmSha
           /\ dmPc \in {"meta_read", "meta_writing", "post_version", "returned"})
  /\ [][(fsDest' # fsDest) =>
          /\ dmPc = "rename" /\ dmPc' = "meta_read"
          /\ fsTmp = ExtractedBinary(dmArchive)
          /\ fsDest' = fsTmp
          /\ dmArchive.digest = dmSha]_vars

\* the old driver was replaced by the new binary and the install went on
C13_Witness ==
  /\ dmPc = "meta_writing"
  /\ fsDest0 = [kind |-> "binary", major |-> 120]
  /\ fsDest = [kind |-> "binary", major |-> 121]

\* download_url.startswith("https://storage.googleapis.com/chrome-for-testing-public/")
UnderOfficialPrefix(u) ==
  /\ u.isStr
  /\ Len(u.segs) > 3
  /\ u.segs[1] = "https:" /\ u.segs[2] = "storage.googleapis.com"
  /\ u.segs[3] = "chrome-for-testing-public"

\* C14: every archive download goes to a URL under the official prefix; a
\* descriptor whose url is missing, not a string or elsewhere ends the
\* install with DriverInstallError after the feed request alone, with the
\* destination untouched
C14_OnlyOfficialDownloads ==
  /\ \A i \in 1..Len(dmNet) : (dmNet[i] # FeedUrl) => UnderOfficialPrefix(dmNet[i])
  /\ (dmSelected # NoItem /\ ~UnderOfficialPrefix(dmSelected.url)) =>
        /\ dmPc = "returned"
        /\ dmFailed = "unsafe_url" /\ dmExc = "DriverInstallError"
        /\ dmNet = <<FeedUrl>>
        /\ fsDest = fsDest0 /\ fsTmp = NoFile

\* the descriptor of the platform points to another host and has a valid
\* checksum: the install was abandoned for the URL
C14_Witness ==
  /\ dmFailed = "unsafe_url"
  /\ dmSelected.url.isStr /\ dmSelected.url.segs[2] = "example.org"
  /\ ExtractSha256(dmSelected) # NoSha
  /\ dmNet = <<FeedUrl>>

\* C15: the metadata file is never in a partly written state
C15_MetadataWriteAtomic ==
  fsMeta.kind # "partial"

\* C16: when resolve_driver has returned, every record the metadata file
\* held for another platform tag is still in the file, and after a
\* successful install the file holds the record of the installed tag
C16_RecordsKept ==
  (dmPc = "returned") =>
     /\ (fsMeta0.kind = "json") =>
           /\ fsMeta.kind = "json"
           /\ \A m \in fsMeta0.drivers :
                 (m.tag # dmTarget.cft_platform) => m \in fsMeta.drivers
     /\ (dmFailed = "none" /\ dmArchive # NoArchive) =>
           /\ fsMeta.kind = "json"
           /\ MetaRecord(dmTarget.cft_platform, dmBrowser.major, dmUrl, dmSha, "now")
                 \in fsMeta.drivers

VendorTags == {"mac-arm64", "mac-x64", "linux64", "win64", "win32"}

\* C17: on darwin, linux and windows _current_target yields one of the five
\* vendor tags, with the executable chromedriver.exe exactly for the two
\* Windows tags; on any other system it raises DriverInstallError and
\* yields no target
C17_TargetTags ==
  [][(dmPc = "target" /\ dmPc' # "target") =>
       IF envSystem \in {"darwin", "linux", "windows"}
       THEN /\ dmPc' = "local"
            /\ dmTarget'.cft_platform \in VendorTags
            /\ dmTarget'.executable_name =
                 (IF dmTarget'.cft_platform \in {"win64", "win32"}
                  THEN "chromedriver.exe" ELSE "chromedriver")
       ELSE /\ dmPc' = "raised"
            /\ dmResult' = Raise("DriverInstallError")
            /\ dmTarget' = NoTarget]_vars

\* a 32-bit Windows host got the tag win32
C17_Witness ==
  /\ envSystem = "windows"
  /\ envMachine = <<"i", "6", "8", "6">>
  /\ dmTarget.cft_platform = "win32"
  /\ dmTarget.executable_name = "chromedriver.exe"

HasScheme(text) == StartsWith(text, Https) \/ StartsWith(text, <<"h", "t", "t", "p", ":", "/", "/">>)

\* the position of a candidate in the fixed order of the variants
Rank(url) ==
  IF StartsWith(url, Https \o TMe \o <<"/", "s", "/">>) THEN 1
  ELSE IF EndsWith(url, <<"e", "m", "b", "e", "d", "=", "1">>) THEN 2
  ELSE IF EndsWith(url, <<"e", "m", "b", "e", "d", "=", "1", "&", "m", "o", "d", "e", "=", "t", "m", "e">>) THEN 3
  ELSE IF EndsWith(url, <<"s", "i", "n", "g", "l", "e">>) THEN 4
  ELSE 0

ExampleInput == TMe \o Slash \o <<"e", "x", "a", "m", "p", "l", "e", "c", "h", "a", "n">> \o <<"/", "4", "2">>

\* C18: the candidate list has no duplicates, starts with the stripped
\* input, prefixed with https:// when it has no scheme, continues with
\* variants in the order preview, embed, embed+mode, single-item, and for
\* t.me/examplechan/42 it is exactly the five addresses of the example
C18_CandidateOrder ==
  (txCandidates # Unset) =>
     LET urls == txCandidates.value
         first == IF HasScheme(Strip(txText)) THEN Strip(txText) ELSE Https \o Strip(txText)
     IN /\ Len(urls) >= 1 /\ urls[1] = first
        /\ \A i, j \in 1..Len(urls) : (i # j) => urls[i] # urls[j]
        /\ \A i \in 2..Len(urls) : Rank(urls[i]) > 0
        /\ \A i, j \in 2..Len(urls) : (i < j) => Rank(urls[i]) < Rank(urls[j])
        /\ (txText = ExampleInput) =>
              urls = <<Https \o ExampleInput,
                       Https \o TMe \o <<"/", "s", "/">> \o <<"e", "x", "a", "m", "p", "l", "e", "c", "h", "a", "n">> \o <<"/", "4", "2">>,
                       Https \o ExampleInput \o <<"?", "e", "m", "b", "e", "d", "=", "1">>,
                       Https \o ExampleInput \o <<"?", "e", "m", "b", "e", "d", "=", "1", "&", "m", "o", "d", "e", "=", "t", "m", "e">>,
                       Https \o ExampleInput \o <<"?", "s", "i", "n", "g", "l", "e">>>>

\* the five candidates of the example input were built
C18_Witness ==
  /\ txText = ExampleInput
  /\ txCandidates # Unset
  /\ Len(txCandidates.value) = 5

\* C19: a pixel is stripped (alpha 0) exactly when 30 <= r <= 90, g >= 220,
\* b <= 50, g > r + 20 and g > b + 20; every other pixel comes out unchanged
\* in its four channels; (60, 255, 0, 255) is stripped, (0, 128, 0, 255)
\* and (60, 255, 60, 255) are not
C19_StripPredicate ==
  (pxOut.kind = "set") =>
     LET p == pxIn
         q == pxOut.px
         green == /\ 30 <= p.r /\ p.r <= 90 /\ p.g >= 220 /\ p.b <= 50
                  /\ p.g > p.r + 20 /\ p.g > p.b + 20
     IN /\ green => q.a = 0
        /\ ~green => q = p
        /\ (p = [r |-> 60, g |-> 255, b |-> 0, a |-> 255]) => q.a = 0
        /\ (p \in {[r |-> 0, g |-> 128, b |-> 0, a |-> 255],
                   [r |-> 60, g |-> 255, b |-> 60, a |-> 255]}) => q = p

\* the natural dark green pixel went through unchanged
C19_Witness ==
  /\ pxIn = [r |-> 0, g |-> 128, b |-> 0, a |-> 255]
  /\ pxOut = [kind |-> "set", px |-> pxIn]

\* C20: for a validated link of either host the filename is the part of
\* the link after the host, every character that is not a letter or a
\* digit replaced by an underscore, followed by .png
C20_FilenameAfterHost ==
  \A host \in {TMe, TelegramMe} :
     (/\ txFilename # Unset
      /\ StartsWith(txUrl.value, Https \o host \o Slash)) =>
        txFilename.value =
          Underscored(DropFirst(txUrl.value, Len(Https \o host \o Slash))) \o <<".", "p", "n", "g">>

\* C21: a text accepted by validate_tg_link comes back as an address that
\* starts with https://t.me/ or https://telegram.me/ and holds the scheme
\* https:// exactly once
C21_ValidatedShape ==
  (txUrl.kind = "str") =>
     /\ \E host \in {TMe, TelegramMe} : StartsWith(txUrl.value, Https \o host \o Slash)
     /\ Cardinality(Occurrences(txUrl.value, Https)) = 1

\* C22: the step in which image post-processing fails ends that request
\* only (every other request stays where it is) and leaves the session
\* slot, every session's state, the profile directories on disk, the
\* tracked profile directories and the stored driver resolution as they were
C22_ProcessingFailureKeepsSession ==
  [][\A r \in Reqs :
       (pc[r] = "processing" /\ pc'[r] = "done" /\ outcome'[r] \in {"failed", "raised"}) =>
          /\ driver' = driver
          /\ sessions' = sessions
          /\ dirsOnDisk' = dirsOnDisk
          /\ tempProfileDirs' = tempProfileDirs
          /\ driverResolution' = driverResolution
          /\ \A q \in Reqs \ {r} : pc'[q] = pc[q] /\ outcome'[q] = outcome[q]]_vars

\* a single request failed with the only fault of the run while the one
\* session ever constructed is still live in the slot with its profile
\* directory on disk: the fault was in post-processing, since a capture
\* fault or a refresh would have quit the session
C22_Witness ==
  \E r \in Reqs :
     /\ outcome[r] = "failed"
     /\ faults = 1
     /\ \A q \in Reqs \ {r} : pc[q] = "idle"
     /\ Len(sessions) = 1 /\ driver = 1 /\ sessions[1].st = "live"
     /\ sessions[1].dir \in dirsOnDisk

\* the positions where a run of digits followed by a dot starts
DottedRunStarts(text) ==
  {i \in 1..Len(text) :
     \E j \in i..(Len(text) - 1) :
        AllIn(SubSeq(text, i, j), Digits) /\ text[j + 1] = "."}

\* C23: applied to a string that holds a run of digits followed by a dot,
\* _extract_major returns the integer value of the first such run, every
\* time it is applied; applied to a string without one it raises
\* RuntimeError; "Google Chrome 120.0.6099.109" gives 120
C23_FirstDottedRun ==
  \A k \in 1..Len(vxResults) :
     LET starts == DottedRunStarts(vxOutput)
     IN /\ vxResults[k] = vxResults[1]
        /\ IF starts = {}
           THEN vxResults[k].kind = "raise" /\ vxResults[k].exc = "RuntimeError"
           ELSE LET i == MinOf(starts)
                    j == CHOOSE j \in i..(Len(vxOutput) - 1) :
                            AllIn(SubSeq(vxOutput, i, j), Digits) /\ vxOutput[j + 1] = "."
                IN /\ vxResults[k].kind = "int"
                   /\ vxResults[k].value = IntOf(SubSeq(vxOutput, i, j))
        /\ (vxOutput = <<"G", "o", "o", "g", "l", "e", " ", "C", "h", "r", "o", "m", "e", " ", "1", "2", "0", ".", "0", ".", "6", "0", "9", "9", ".", "1", "0", "9">>) => vxResults[k].value = 120

\* the second call on "1 2120.0.6099.109 (abc)" returned 2120, the first
\* run of digits that a dot follows, as the first call did
C23_Witness ==
  /\ vxOutput = <<"1", " ", "2", "1", "2", "0", ".", "0", ".", "6", "0", "9", "9", ".", "1", "0", "9", " ", "(", "a", "b", "c", ")">>
  /\ Len(vxResults) = 2
  /\ vxResults[2] = Major(2120)

\* C24: whenever a request is executing a capture attempt, the session it
\* was handed is a session (the slot was not empty) and that session is
\* live, neither being quit nor quit
C24_CaptureHasLiveSession ==
  \A r \in Reqs :
     Capturing(r) => capSess[r] # NoSession /\ sessions[capSess[r]].st = "live"

\* C25: in a forced refresh, whether stale_driver.quit returns or raises,
\* _ensure_driver goes on to remove the old profile directory (and from
\* there to resolve the driver and construct a session)
C25_TeardownErrorsIgnored ==
  [][\A r \in Reqs :
       (pc[r] = "refresh_quit" /\ pc'[r] # "refresh_quit") => pc'[r] = "refresh_cleanup"]_vars

\* C26: the step in which _ensure_driver(force_refresh=False) runs while a
\* session is in the slot returns to the caller, which goes on to wait for
\* the capture lock, with the boot lock released and the slot, every
\* session, the profile directories, the stored driver resolution and the
\* error hint as they were: nothing is resolved, quit or constructed
C26_EnsureFastPath ==
  [][\A r \in Reqs :
       (BootLockAcquire(r) /\ ~force[r] /\ driver # NoSession) =>
          /\ pc'[r] = "lock_wait"
          /\ bootLock' = NoReq
          /\ driver' = driver
          /\ sessions' = sessions
          /\ dirsOnDisk' = dirsOnDisk
          /\ tempProfileDirs' = tempProfileDirs
          /\ nextDir' = nextDir
          /\ driverResolution' = driverResolution
          /\ driverErrorHint' = driverErrorHint]_vars

\* two requests are past their first _ensure_driver, one capturing and one
\* waiting for the capture lock, and a single session was ever constructed:
\* one of the two calls found the session of the other and returned
C26_Witness ==
  \E r, q \in Reqs :
     /\ pc[r] = "capture1" /\ pc[q] = "lock_wait"
     /\ Len(sessions) = 1 /\ driver = 1 /\ capSess[r] = 1
     /\ sessions[1].st = "live"

\* C27: a session is put into the slot only when the slot is empty, and
\* when a session is constructed no session constructed before it is still
\* live or still being quit
C27_SlotLifecycle ==
  [][/\ (driver' # driver /\ driver' # NoSession) => driver = NoSession
     /\ (Len(sessions') > Len(sessions)) =>
           /\ driver = NoSession
           /\ \A s \in SessionIds : ~Live(s)]_vars

\* C28: with the override configured and present on disk and the browser
\* and its major version resolved, resolve_driver, forced or not, returns
\* the override path without the Selenium Manager flag, having issued no
\* network request and with the managed driver file, its temporary file
\* and the metadata file as they were
C28_OverrideWins ==
  (envOverride = "exists" /\ dmBrowser.binary # "none" /\ dmPc # "override") =>
     /\ dmPc = "returned"
     /\ dmResult = [kind |-> "return", driver_path |-> "override",
                    browser_binary |-> dmBrowser.binary,
                    browser_major |-> dmBrowser.major,
                    used_selenium_manager |-> FALSE]
     /\ dmNet = <<>>
     /\ fsDest = fsDest0 /\ fsTmp = NoFile /\ fsMeta = fsMeta0

\* a forced call with the override present returned the override
C28_Witness ==
  /\ dmForce /\ envOverride = "exists"
  /\ dmPc = "returned" /\ dmResult.driver_path = "override"
  /\ fsDest0.kind = "binary"

\* C29: on a supported host without an applicable override, a call that is
\* not forced and finds a local driver of the browser's major version
\* returns the destination path without a network request and with the
\* driver file and the metadata as they were; a forced call, or one that
\* finds a local driver of another major version, requests the metadata
\* feed, the first step of the download-and-install
C29_LocalReuse ==
  /\ (/\ dmTarget # NoTarget /\ dmPc # "local"
      /\ ~dmForce
      /\ fsDest0.kind = "binary" /\ fsDest0.major = dmBrowser.major) =>
        /\ dmPc = "returned"
        /\ dmResult = [kind |-> "return", driver_path |-> "destination",
                       browser_binary |-> dmBrowser.binary,
                       browser_major |-> dmBrowser.major,
                       used_selenium_manager |-> FALSE]
        /\ dmNet = <<>>
        /\ fsDest = fsDest0 /\ fsTmp = NoFile /\ fsMeta = fsMeta0
  /\ (/\ dmTarget # NoTarget /\ dmPc \notin {"local", "fetch"}
      /\ \/ dmForce
         \/ fsDest0.kind = "binary" /\ fsDest0.major # dmBrowser.major) =>
        /\ Len(dmNet) >= 1 /\ dmNet[1] = FeedUrl

\* a call that was not forced found the driver of the browser's major
\* version and returned it
C29_Witness ==
  /\ ~dmForce /\ envOverride = "missing"
  /\ fsDest0.kind = "binary" /\ fsDest0.major = dmBrowser.major
  /\ dmPc = "returned" /\ dmResult.driver_path = "destination"
  /\ dmNet = <<>>

\* C30: the descriptor an install works with carries the vendor tag of the
\* current target and is one the feed lists, and every archive download
\* goes to the URL of that descriptor; when the feed lists no descriptor
\* with that tag the install ends with DriverInstallError after the feed
\* request alone and leaves the destination and its temporary file alone
C30_PlatformDescriptorOnly ==
  /\ (dmSelected # NoItem) =>
        /\ dmSelected.platform = dmTarget.cft_platform
        /\ \E k \in 1..Len(dmDownloads) : dmDownloads[k] = dmSelected
  /\ \A i \in 1..Len(dmNet) : (dmNet[i] # FeedUrl) => dmNet[i] = dmSelected.url
  /\ (/\ dmDownloads # NoDownloads
      /\ \A k \in 1..Len(dmDownloads) : dmDownloads[k].platform # dmTarget.cft_platform) =>
        /\ dmPc = "returned"
        /\ dmFailed = "platform" /\ dmExc = "DriverInstallError"
        /\ dmSelected = NoItem
        /\ dmNet = <<FeedUrl>>
        /\ dmArchive = NoArchive
        /\ fsDest = fsDest0 /\ fsTmp = NoFile

\* the feed listed a complete descriptor of another platform only: the
\* install was abandoned without a download
C30_Witness ==
  /\ Len(dmDownloads) = 1
  /\ dmDownloads[1].platform = OtherTag(dmTarget.cft_platform)
  /\ SafeUrl(dmDownloads[1].url) /\ ExtractSha256(dmDownloads[1]) # NoSha
  /\ dmFailed = "platform"
  /\ dmNet = <<FeedUrl>>

\* the archive requests among the network requests issued so far
DownloadRequests == {i \in 1..Len(dmNet) : dmNet[i] # FeedUrl}

\* C31: _download_with_retries issues at most 3 requests; every pass of
\* its loop issues one request and either ends the loop or uses up one of
\* the 3 attempts, so the loop ends; a pass that received the archive is
\* the last one; and the download fails with DriverInstallError exactly
\* after 3 requests none of which delivered an archive
C31_BoundedRetries ==
  /\ [](/\ dmAttempts <= 3
        /\ Cardinality(DownloadRequests) = dmAttempts
        /\ (dmPc = "download") => (dmAttempts < 3 /\ dmArchive = NoArchive)
        /\ (dmFailed = "download" /\ dmExc = "DriverInstallError") =>
              (dmAttempts = 3 /\ dmArchive = NoArchive /\ dmPc = "returned"))
  /\ [][(dmPc = "download") =>
          /\ dmAttempts' = dmAttempts + 1
          /\ (dmArchive' # NoArchive) => dmPc' = "verify"
          /\ (dmPc' = "download") => dmArchive' = NoArchive]_vars

\* three requests went out, none delivered, and the install was abandoned
\* with DriverInstallError
C31_Witness ==
  /\ dmFailed = "download" /\ dmExc = "DriverInstallError"
  /\ dmAttempts = 3
  /\ dmNet = <<FeedUrl, dmUrl, dmUrl, dmUrl>>

\* what the browser holds for a navigation or probe
Outcome(p) ==
  IF p.context = -1
  THEN (IF cpPages[p.url].top = "get_raises" THEN "raises" ELSE "loaded")
  ELSE IF p.context = 0 THEN cpPages[p.url].top
  ELSE cpPages[p.url].frames[p.context]

\* the page holds a post element in its top-level document or in one of
\* its matching iframes
Yields(page) ==
  \/ page.top = "element"
  \/ page.top \in {"none", "timeout"} /\
       \E k \in 1..Len(page.frames) : page.frames[k] = "element"

C33_CropInsideImage ==
  (crResult # NoCropResult) =>
     /\ (crResult.kind = "return") =>
           /\ 0 <= crResult.left /\ crResult.left < crResult.right
           /\ crResult.right <= crImage.width
           /\ 0 <= crResult.top /\ crResult.top < crResult.bottom
           /\ crResult.bottom <= crImage.height
     /\ (crResult.kind = "raise") <=>
           \/ ~crRect.measured
           \/ Scaled(crRect.left, crScale) >= crImage.width
           \/ Scaled(crRect.top, crScale) >= crImage.height

\* an element that starts left of the viewport and is wider than the
\* image, at scale 1.5: the box was clamped to the image on both sides
C33_Witness ==
  /\ crRect = [measured |-> TRUE, left |-> -3, top |-> 3, width |-> 5, height |-> 2]
  /\ crScale = 3 /\ crImage = [width |-> 4, height |-> 7]
  /\ crResult = [kind |-> "return", left |-> 0, top |-> 4, right |-> 4, bottom |-> 7]

\* the positions of the line feeds among the bytes
LineFeeds(bytes) == {i \in 1..Len(bytes) : bytes[i] = "LF"}

\* the number of lines of the bytes, the last one with or without line feed
LineCount(bytes) ==
  Cardinality(LineFeeds(bytes)) +
    (IF bytes # <<>> /\ bytes[Len(bytes)] # "LF" THEN 1 ELSE 0)

\* bytes is what is left of all after dropping its first lines but n
IsLastLines(bytes, all, n) ==
  \E k \in LineFeeds(all) :
     /\ Cardinality({i \in LineFeeds(all) : i <= k}) = LineCount(all) - n
     /\ bytes = SubSeq(all, k + 1, Len(all))

C35_EnsureFailureEndsRequest ==
  [][\A r \in Reqs :
       /\ (pc[r] \in {"resolving", "creating"} /\ ~force[r] /\ pc'[r] # pc[r]
              /\ faults' # faults) =>
             /\ pc'[r] = "report_fail"
             /\ captures[r] = 0 /\ captures'[r] = 0
             /\ driverLock # r /\ driverLock' = driverLock
             /\ bootLock' = NoReq
             /\ driver = NoSession /\ driver' = NoSession
       /\ (pc[r] = "report_fail" /\ captures[r] = 0 /\ pc'[r] # pc[r]) =>
             /\ pc'[r] = "done"
             /\ outcome'[r] \in {"failed", "raised"}
             /\ driverLock # r /\ driverLock' = driverLock
             /\ driver' = driver
       /\ (BootLockAcquire(r) /\ ~force[r] /\ driver = NoSession) =>
             pc'[r] = "resolving"]_vars

\* the first request failed in its first _ensure_driver call (the only
\* failure so far, and no session was ever constructed) and the second
\* request has resolved the driver again and is constructing a session
C35_Witness ==
  /\ pc[1] = "done" /\ outcome[1] = "failed"
  /\ faults = 1 /\ sessions = <<>>
  /\ pc[2] = "creating" /\ ~force[2]
\* C36: the colour #39ff00 is painted as red 57, green 255, blue 0, and a
\* pixel of that colour comes out of the stripping with alpha 0, with and
\* without numpy
C36_InjectedBackgroundStripped ==
  /\ \A p \in BackgroundPixels : p.r = 57 /\ p.g = 255 /\ p.b = 0
  /\ (pxOut.kind = "set" /\ pxIn.r = 57 /\ pxIn.g = 255 /\ pxIn.b = 0) =>
        pxOut.px.a = 0

\* an opaque pixel of the injected background went through the loop
\* without numpy and came out transparent
C36_Witness ==
  /\ pxIn \in BackgroundPixels
  /\ pxIn.a = 255
  /\ ~pxNumpy
  /\ pxOut.kind = "set" /\ pxOut.px.a = 0
\* C37: when no request is in flight, the only temporary profile directory
\* on disk or in _temp_profile_dirs is the one of the session in the slot
C37_NoProfileDirLeft ==
  (\A r \in Reqs : ~InFlight(r)) =>
     LET kept == IF driver # NoSession /\ sessions[driver].dir # NoDir
                 THEN {sessions[driver].dir}
                 ELSE {}
     IN /\ dirsOnDisk \subseteq kept
        /\ \A i \in 1..Len(tempProfileDirs) : tempProfileDirs[i] \in kept
\* the links of a user that went on to _acquire_capture_slot
PassedCalls(u) == {i \in 1..Len(rlCalls) : rlCalls[i].user = u /\ rlCalls[i].slot}

\* C38: with a positive limit any two links of one user that went on to
\* the admission slot were handled at least the limit apart on the
\* monotonic clock, and the user's recorded timestamp is the time of the
\* last of them (none when there is none), so a rejected link did not
\* change it; a link with a positive retry_after did not go on to the
\* admission slot; with the limit 0 every link went on
C38_RateLimit ==
  /\ \A i \in 1..Len(rlCalls) : rlCalls[i].slot <=> ~(rlCalls[i].retry_after > 0)
  /\ rlLimit = 0 => \A i \in 1..Len(rlCalls) : rlCalls[i].slot
  /\ rlLimit > 0 =>
       \A u \in Users :
          /\ \A i, j \in PassedCalls(u) :
                i < j => rlCalls[j].now - rlCalls[i].now >= rlLimit
          /\ IF PassedCalls(u) = {}
             THEN rlLastTs[u] = NoTs
             ELSE \E i \in PassedCalls(u) :
                    /\ \A j \in PassedCalls(u) : j <= i
                    /\ rlLastTs[u] = rlCalls[i].now

\* with the limit 2, user 1 was let through at 0, rejected at 1 with one
\* second to wait, and let through again at 2
C38_Witness ==
  /\ rlLimit = 2
  /\ rlCalls = <<[user |-> 1, now |-> 0, retry_after |-> 0, slot |-> TRUE],
                 [user |-> 1, now |-> 1, retry_after |-> 1, slot |-> FALSE],
                 [user |-> 1, now |-> 2, retry_after |-> 0, slot |-> TRUE]>>
  /\ rlLastTs[1] = 2
\* C39: the pixel that came out of the path taken (with numpy or without)
\* is, in its four channels, the pixel the other path gives for the same
\* input
C39_PathsAgree ==
  (pxOut.kind = "set") => pxOut.px = RemoveGreenPixel(pxIn, ~pxNumpy)

====
